---- MODULE Spec2Model ----
\* State-machine model of the crawling pipeline and its orchestration:
\* RateLimiter, ContentFilter, the OCR decision stage, CrawlerStage runs,
\* the CrawlerWorker retry / dead-letter handling, the ChunkerStage and
\* WebScrapingPipeline.run with the stages of the default pipeline.
EXTENDS Integers, Sequences, FiniteSets, TLC

\* ------------------------------------------------------------------ bounds

\* Largest base_delay a RateLimiter is constructed with (time units).
MaxBase == 2
\* The max_delay the limiters of the model are constructed with.
MaxDelayCap == 5
\* Number of clock ticks the model lets pass.
MaxTicks == 4
\* Cap on consecutive_failures (the code's counter is unbounded).
MaxFailures == 3
\* Number of coroutines that may call wait() on one limiter.
NumCallers == 2

\* Number of distinct content hashes.
NumHashes == 3
\* Cap on the number of ContentFilter calls observed.
MaxCalls == 5
\* Largest word count of a page.
MaxWords == 101
\* Largest number of images of a page.
MaxImages == 3
\* Largest number of pages of a document given to the OCR decision stage.
MaxPages == 2

\* Number of tasks submitted to the crawl queue.
NumTasks == 2
\* Number of crawler workers.
NumWorkers == 2
\* Largest max_retries of a task.
MaxRetries == 2
\* Capacity of the crawl queue in the model.
QueueCap == 2

\* Number of crawl runs one CrawlerStage instance is used for.
MaxRuns == 2
\* Number of URLs one crawl run takes from its frontier.
MaxUrlsPerRun == 2

\* Largest number of sentences of a page given to the chunker.
MaxSentences == 5
\* Number of times one page is chunked.
MaxChunkRuns == 2
\* Largest number of URLs of a site the pipeline crawls.
MaxSitePages == 2

\* Largest number of URLs the sitemap, or the links of one page, add to
\* the crawl queue.
MaxLinks == 1

\* Number of tasks submitted in the bounded-queue scenario.
NumIncoming == 5
\* Number of tasks the workers run under the recovery watchdog.
NumWatched == 1
\* Number of documents in the store, of DocumentWorker instances, the
\* largest max_iterations given to run(), and the polls of one run()
\* that are followed.
NumDocs == 2
NumDocWorkers == 2
MaxIterations == 2
MaxPolls == 3
\* Largest number of include patterns and of exclude patterns of a
\* ContentFilter, and of path segments of a URL given to should_skip_url.
MaxPatterns == 2
MaxUrlSegments == 2
\* Number of paths of the site crawled URL by URL, and the largest
\* max_pages of a config or a Document.
NumPaths == 2
MaxPageLimit == 2
\* Largest number of sentences of a page of the crawled document.
MaxDocSentences == 2
\* Largest number of startup() and shutdown() calls in a row.
MaxLifecycleCalls == 5
\* How far beyond their ceilings the OCR pool size and the OCR queue size
\* given to OrchestratorConfig go.
MaxMargin == 2

\* Number of kinds of page content the sites of the pipeline runs have.
NumSiteContents == 5

\* ------------------------------------------------------------------ helpers

Min(a, b) == IF a <= b THEN a ELSE b
Max(a, b) == IF a >= b THEN a ELSE b

RECURSIVE Pow(_, _)
Pow(b, k) == IF k = 0 THEN 1 ELSE b * Pow(b, k - 1)

\* ------------------------------------------------------------------ state

VARIABLES
    \* RateLimiter fields (rate_limiter.py 47-52)
    base_delay, max_delay, backoff_factor, current_delay,
    last_request_time, consecutive_failures,
    \* wall clock read by time.time()
    now,
    \* per caller of wait(): "idle" or "sleeping", and the wake-up time
    wpc, wake,
    \* observation of the limiter's use: the last operation (with the number
    \* of consecutive failures it followed or reached), the number of
    \* failure() calls since construction / reset() / success(), the time
    \* the previous wait() returned and whether every pair of successive
    \* returns so far was at least current_delay apart
    rlLastOp, failRun, lastReturn, gapOK,
    \* ContentFilter fields (content_filter.py 31, 37)
    skip_duplicates, seen_hashes,
    \* observation of the filter's use: the hashes asked about since
    \* construction / reset(), the number of calls, and the last call with
    \* its result and whether its hash had been asked about before
    cfAsked, cfCalls, cfLast,
    \* the OCR thresholds in force, the pages of the document given to the
    \* OCR decision stage, and whether the stage has processed it
    ocrConfig, pages, ocrDone,
    \* task envelopes (kind, status, retry_count, max_retries,
    \* failure_reason), the crawl queue, the dead-letter queue and the task
    \* each crawler worker holds (0: none)
    tasks, crawl_queue, dead_letter, holding,
    \* observation of the workers: how often each task was started, and
    \* the last step taken (with the task and its retry_count before it)
    execCount, wkLast,
    \* one CrawlerStage instance: who owns it (a CrawlerWorker or a
    \* WebScrapingPipeline), whether setup() has built its RateLimiter and
    \* ContentFilter, where its process() stands, how many runs it has
    \* served and how many URLs the current run has taken
    stageOwner, stageReady, crawlPc, runCount, urlsTaken,
    \* the crawl of the current run: the Document's pages and counters, the
    \* number of entries waiting in the crawl queue and of entries put on
    \* it so far, the number of PDF URLs set aside, and the counters
    \* incremented for the URL taken last
    crDocument, crQueue, crDiscovered, crPdfUrls, crCounted,
    \* the chunker thresholds in force, the page given to _chunk_page, the
    \* parents and children of its last run, the number of runs so far and
    \* the ids the run before the last produced
    chConfig, chPage, chParents, chChildren, chRuns, chPrev,
    \* one WebScrapingPipeline: its config, its registered stages, where
    \* run() stands (with the index of the stage it is in), the Document,
    \* the files written, the exception run() raised, and the sequence of
    \* hooks invoked so far
    plConfig, plStages, plPc, plIdx, plDoc, plFiles, plError, plLog,
    \* the orchestrator: the OrchestratorConfig last constructed (or
    \* "none"), the error the construction raised, the arguments it was
    \* given, and the config the orchestrator was started with
    orchConfig, orchError, orchArgs, orchStarted,
    \* the recovery watchdog: for each task the seconds since it was
    \* marked started (0 when it is not running), and a bit that every
    \* check of the watchdog flips
    runningFor, wdFlip,
    \* shutdown: whether the signal was given and the seconds since, where
    \* each worker stands in its loop, and the seconds it has waited in
    \* its queue pop
    shutdownSignal, sinceShutdown, workerPc, popWait,
    \* the document store: the status of each document and whether its
    \* file is on disk
    dwStatus, dwFile,
    \* each DocumentWorker: where it stands, the outermost call it serves
    \* ("run", "pending", "session"), the documents it fetched and has not
    \* come to yet, the document it is processing (0: none), the limit of
    \* its fetch, the count process_pending returns, and the fields and
    \* locals of run()
    dwPc, dwMode, dwBatch, dwCur, dwLimit, dwProcessed,
    dwRunning, dwIter, dwMax,
    \* observation of the workers: the polls run() has begun, the workers
    \* that marked each document processing, and the documents a worker is
    \* through with
    dwPolls, dwPicked, dwLeft,
    \* the URL rules of a ContentFilter (content_filter.py 30, 33, 34) and
    \* the last should_skip_url call with its result
    skip_login_pages, include_patterns, exclude_patterns, urlLast,
    \* the frontier of one crawl run: where process() stands, the crawl
    \* queue, the visited set and the PDF URLs set aside, the URLs of the
    \* pages added to the Document, max_pages of the config and of the
    \* Document, and the paths of the site that are PDFs
    frPc, frQueue, frVisited, frPdfUrls, frPages, frMaxPages, frDocMaxPages,
    frPdfPaths,
    \* observation: how often each URL was passed to _crawl_single_page
    frFetched,
    \* a crawled document given to the chunker: the thresholds, the pages
    \* and whether process has returned
    cdConfig, cdPages, cdChunked,
    \* ApplicationLifecycle._initialized and _shutdown_called, whether the
    \* database connections are open and the executor is held, and the
    \* calls made so far with how each went
    lcInitialized, lcShutdownCalled, lcDbConnected, lcExecutorHeld, lcLog

rlVars == <<base_delay, max_delay, backoff_factor, current_delay,
            last_request_time, consecutive_failures, now, wpc, wake,
            rlLastOp, failRun, lastReturn, gapOK>>

cfVars == <<skip_duplicates, seen_hashes, cfAsked, cfCalls, cfLast>>

ocrVars == <<ocrConfig, pages, ocrDone>>

wkVars == <<tasks, crawl_queue, dead_letter, holding, execCount, wkLast>>

crDocVars == <<crDocument, crQueue, crDiscovered, crPdfUrls, crCounted>>

crVars == <<stageOwner, stageReady, crawlPc, runCount, urlsTaken, crDocVars>>

chVars == <<chConfig, chPage, chParents, chChildren, chRuns, chPrev>>

plVars == <<plConfig, plStages, plPc, plIdx, plDoc, plFiles, plError, plLog>>

sdVars == <<shutdownSignal, sinceShutdown, workerPc, popWait>>
orVars == <<orchConfig, orchError, orchArgs, orchStarted, runningFor, wdFlip, sdVars>>

dwStoreVars == <<dwStatus, dwFile>>
dwWorkerVars == <<dwPc, dwMode, dwBatch, dwCur, dwLimit, dwProcessed,
                  dwRunning, dwIter, dwMax>>
dwVars == <<dwStoreVars, dwWorkerVars, dwPolls, dwPicked, dwLeft>>
urlVars == <<skip_login_pages, include_patterns, exclude_patterns, urlLast>>
frVars == <<frPc, frQueue, frVisited, frPdfUrls, frPages, frMaxPages,
           frDocMaxPages, frPdfPaths, frFetched>>
cdVars == <<cdConfig, cdPages, cdChunked>>
lcVars == <<lcInitialized, lcShutdownCalled, lcDbConnected, lcExecutorHeld,
           lcLog>>
svVars == <<dwVars, urlVars, frVars, cdVars, lcVars>>
vars == <<rlVars, cfVars, ocrVars, wkVars, crVars, chVars, plVars, orVars, svVars>>

Callers == 1..NumCallers
\* time.time() is epoch seconds: far larger than any delay.
StartTime == MaxDelayCap * 4
Horizon == StartTime + MaxTicks

\* ------------------------------------------------------------ RateLimiter

\* RateLimiter.__init__
RateLimiter_init(b, m, f) ==
    /\ base_delay = b
    /\ max_delay = m
    /\ backoff_factor = f
    /\ current_delay = b
    /\ last_request_time = 0
    /\ consecutive_failures = 0

\* the delay failure() computes
BackoffDelay_NoCap(b, f, k, m) == b * Pow(f, k)
BackoffDelay(b, f, k, m) == Min(b * Pow(f, k), m)

\* wait_time of wait()
WaitTime == Max(0, current_delay - (now - last_request_time))

\* bookkeeping of a wait() return at the current time
NoteReturn ==
    /\ gapOK' = (gapOK /\ (lastReturn = -1 \/ now - lastReturn >= current_delay))
    /\ lastReturn' = now

\* wait(), up to the sleep: no sleep when wait_time = 0
RateLimiter_wait_begin(c) ==
    /\ wpc[c] = "idle"
    /\ IF WaitTime > 0
       THEN /\ wpc' = [wpc EXCEPT ![c] = "sleeping"]
            /\ wake' = [wake EXCEPT ![c] = now + WaitTime]
            /\ UNCHANGED <<last_request_time, lastReturn, gapOK, rlLastOp>>
       ELSE /\ last_request_time' = now
            /\ NoteReturn
            /\ rlLastOp' = [op |-> "wait", k |-> 0]
            /\ UNCHANGED <<wpc, wake>>
    /\ UNCHANGED <<base_delay, max_delay, backoff_factor, current_delay,
                   consecutive_failures, now, failRun>>

\* wait(), after the sleep
RateLimiter_wait_end(c) ==
    /\ wpc[c] = "sleeping"
    /\ now >= wake[c]
    /\ last_request_time' = now
    /\ NoteReturn
    /\ rlLastOp' = [op |-> "wait", k |-> 0]
    /\ wpc' = [wpc EXCEPT ![c] = "idle"]
    /\ wake' = [wake EXCEPT ![c] = 0]
    /\ UNCHANGED <<base_delay, max_delay, backoff_factor, current_delay,
                   consecutive_failures, now, failRun>>

RateLimiter_success_KeepsDelay ==
    /\ consecutive_failures' = 0
    /\ failRun' = 0
    /\ rlLastOp' = [op |-> "success", k |-> failRun]
    /\ UNCHANGED <<base_delay, max_delay, backoff_factor, current_delay,
                   last_request_time, now, wpc, wake, lastReturn, gapOK>>

RateLimiter_success ==
    /\ consecutive_failures' = 0
    /\ current_delay' = base_delay
    /\ failRun' = 0
    /\ rlLastOp' = [op |-> "success", k |-> failRun]
    /\ UNCHANGED <<base_delay, max_delay, backoff_factor,
                   last_request_time, now, wpc, wake, lastReturn, gapOK>>

RateLimiter_failure ==
    /\ consecutive_failures < MaxFailures
    /\ consecutive_failures' = consecutive_failures + 1
    /\ current_delay' = BackoffDelay(base_delay, backoff_factor,
                                     consecutive_failures + 1, max_delay)
    /\ failRun' = failRun + 1
    /\ rlLastOp' = [op |-> "failure", k |-> failRun + 1]
    /\ UNCHANGED <<base_delay, max_delay, backoff_factor,
                   last_request_time, now, wpc, wake, lastReturn, gapOK>>

RateLimiter_reset ==
    /\ current_delay' = base_delay
    /\ last_request_time' = 0
    /\ consecutive_failures' = 0
    /\ failRun' = 0
    /\ rlLastOp' = [op |-> "reset", k |-> failRun]
    /\ UNCHANGED <<base_delay, max_delay, backoff_factor,
                   now, wpc, wake, lastReturn, gapOK>>

\* CrawlerStage.process gives the limiter the crawl delay of robots.txt:
\* base_delay = max(base_delay, crawl_delay) when the delay is positive
RaisedBaseDelay(crawl_delay) ==
    IF crawl_delay > 0 THEN Max(base_delay, crawl_delay) ELSE base_delay

CrawlerStage_robots_delay(crawl_delay) ==
    /\ base_delay' = RaisedBaseDelay(crawl_delay)
    /\ rlLastOp' = [op |-> "robots", k |-> failRun]
    /\ UNCHANGED <<max_delay, backoff_factor, current_delay,
                   last_request_time, consecutive_failures, now, wpc, wake,
                   failRun, lastReturn, gapOK>>

\* crawl delays of a robots.txt: none, one within and one beyond max_delay
RobotsDelays == {0, MaxBase, MaxDelayCap + 1}

Tick ==
    /\ now < Horizon
    /\ now' = now + 1
    /\ UNCHANGED <<base_delay, max_delay, backoff_factor, current_delay,
                   last_request_time, consecutive_failures, wpc, wake,
                   rlLastOp, failRun, lastReturn, gapOK>>

InitRL ==
    /\ \E b \in 1..MaxBase, f \in {2, 3} : RateLimiter_init(b, MaxDelayCap, f)
    /\ now = StartTime
    /\ wpc = [c \in Callers |-> "idle"]
    /\ wake = [c \in Callers |-> 0]
    /\ rlLastOp = [op |-> "init", k |-> 0]
    /\ failRun = 0
    /\ lastReturn = -1
    /\ gapOK = TRUE

IdleRL ==
    /\ RateLimiter_init(1, MaxDelayCap, 2)
    /\ now = StartTime
    /\ wpc = [c \in Callers |-> "idle"]
    /\ wake = [c \in Callers |-> 0]
    /\ rlLastOp = [op |-> "init", k |-> 0]
    /\ failRun = 0
    /\ lastReturn = -1
    /\ gapOK = TRUE

\* ------------------------------------------------------ RateLimiter claims

\* C5: after k >= 1 consecutive failure() calls (counted from construction,
\* reset() or the last success()), consecutive_failures = k and
\* current_delay = min(base_delay * backoff_factor^k, max_delay).
C5_BackoffAfterFailures ==
    rlLastOp.op = "failure" =>
        /\ failRun >= 1
        /\ rlLastOp.k = failRun
        /\ consecutive_failures = failRun
        /\ \/ /\ base_delay * Pow(backoff_factor, failRun) <= max_delay
              /\ current_delay = base_delay * Pow(backoff_factor, failRun)
           \/ /\ base_delay * Pow(backoff_factor, failRun) > max_delay
              /\ current_delay = max_delay

\* a failure() that followed at least one other and hit the max_delay cap
C5_Witness ==
    /\ rlLastOp.op = "failure"
    /\ failRun >= 2
    /\ current_delay = max_delay
    /\ base_delay * Pow(backoff_factor, failRun - 1) < max_delay

\* C6: one success() call, after any number k of consecutive failures, sets
\* current_delay to base_delay and consecutive_failures to 0 and leaves
\* base_delay, max_delay, backoff_factor and last_request_time unchanged.
C6_SuccessResets ==
    /\ [](rlLastOp.op = "success" =>
            current_delay = base_delay /\ consecutive_failures = 0)
    /\ [][rlLastOp'.op = "success" /\ rlLastOp' # rlLastOp =>
            /\ base_delay' = base_delay
            /\ max_delay' = max_delay
            /\ backoff_factor' = backoff_factor
            /\ last_request_time' = last_request_time]_vars

\* a success() that followed two or more failures, after a request was made
C6_Witness ==
    /\ rlLastOp.op = "success"
    /\ rlLastOp.k >= 2
    /\ last_request_time > 0
    /\ current_delay = base_delay

\* C7: any two wait() calls on one limiter, concurrent ones included,
\* return at least current_delay apart.
C7_WaitsSerialized == gapOK

\* C35: max_delay caps the delay: current_delay <= max_delay in every
\* state reached from construction by wait, success, failure and reset
\* calls, also after the crawler raised base_delay to the crawl delay of
\* robots.txt.
C35_DelayWithinMaxDelay == current_delay <= max_delay

\* ----------------------------------------------------------- ContentFilter

Hashes == 1..NumHashes

\* ContentFilter construction (content_filter.py 29-39)
ContentFilter_init(sd) ==
    /\ skip_duplicates = sd
    /\ seen_hashes = {}

\* what is_duplicate_content(h) returns
IsDuplicateResult(h) ==
    IF ~skip_duplicates THEN FALSE ELSE h \in seen_hashes

\* _seen_hashes after is_duplicate_content(h)
SeenAfter_NoInsert(h) == seen_hashes
SeenAfter(h) ==
    IF ~skip_duplicates THEN seen_hashes
    ELSE IF h \in seen_hashes THEN seen_hashes
    ELSE seen_hashes \cup {h}

ContentFilter_is_duplicate_content(h) ==
    /\ cfCalls < MaxCalls
    /\ seen_hashes' = SeenAfter(h)
    /\ cfLast' = [op |-> "is_duplicate_content", h |-> h,
                  result |-> IsDuplicateResult(h), asked |-> h \in cfAsked]
    /\ cfAsked' = cfAsked \cup {h}
    /\ cfCalls' = cfCalls + 1
    /\ UNCHANGED skip_duplicates

ContentFilter_reset ==
    /\ cfCalls < MaxCalls
    /\ seen_hashes' = {}
    /\ cfLast' = [op |-> "reset", h |-> 0, result |-> FALSE, asked |-> FALSE]
    /\ cfAsked' = {}
    /\ cfCalls' = cfCalls + 1
    /\ UNCHANGED skip_duplicates

CFObserveInit ==
    /\ cfAsked = {}
    /\ cfCalls = 0
    /\ cfLast = [op |-> "init", h |-> 0, result |-> FALSE, asked |-> FALSE]

InitCF ==
    /\ \E sd \in BOOLEAN : ContentFilter_init(sd)
    /\ CFObserveInit

IdleCF ==
    /\ ContentFilter_init(TRUE)
    /\ CFObserveInit

\* ---------------------------------------------------- ContentFilter claims

DefaultMinTextBearing == 3
DefaultMinTextRatioPct == 50
DefaultMinWords == 100
DefaultScannedMaxWords == 50
DefaultMinArea == 200000
DefaultDecorativeSize == 300
\* the word count separating a short document from very low text
ShortDocWords == 30

DefaultOcrConfig ==
    [min_text_bearing_images |-> DefaultMinTextBearing,
     min_text_bearing_ratio_pct |-> DefaultMinTextRatioPct,
     min_word_count_sufficient |-> DefaultMinWords,
     scanned_pdf_max_words |-> DefaultScannedMaxWords,
     min_text_bearing_area |-> DefaultMinArea,
     decorative_max_size |-> DefaultDecorativeSize]

\* a configuration with other thresholds: small icons count as text-bearing
\* candidates, so the square-icon rule is exercised
OtherOcrConfig ==
    [min_text_bearing_images |-> 2,
     min_text_bearing_ratio_pct |-> 75,
     min_word_count_sufficient |-> 60,
     scanned_pdf_max_words |-> 20,
     min_text_bearing_area |-> 100000,
     decorative_max_size |-> 200]

OcrConfigs == {DefaultOcrConfig, OtherOcrConfig}

\* ImageInfo values met on pages: a small icon, a large picture, a wide
\* banner, a square image and a tall sidebar
SampleImages ==
    {[width |-> 100, height |-> 100],
     [width |-> 800, height |-> 600],
     [width |-> 2000, height |-> 300],
     [width |-> 350, height |-> 350],
     [width |-> 200, height |-> 1000]}

\* ImageInfo.area and ImageInfo.aspect_ratio (width / height), the latter
\* compared by cross-multiplication
Area(img) == img.width * img.height
AspectAbove(img, num, den) == img.width * den > num * img.height
AspectBelow(img, num, den) == img.width * den < num * img.height

\* _is_text_bearing
IsTextBearing(img, config) ==
    IF img.width < config.decorative_max_size
       /\ img.height < config.decorative_max_size THEN FALSE
    ELSE IF Area(img) < config.min_text_bearing_area THEN FALSE
    ELSE IF AspectAbove(img, 4, 1) \/ AspectBelow(img, 1, 4) THEN FALSE
    ELSE IF ~AspectBelow(img, 9, 10) /\ ~AspectAbove(img, 11, 10)
            /\ img.width < 400 THEN FALSE
    ELSE TRUE

TextBearingCount(images, config) ==
    Cardinality({i \in DOMAIN images : IsTextBearing(images[i], config)})

\* significant_text_images; the ratio test is text_bearing / total >=
\* min_text_bearing_ratio
SignificantTextImages(text_bearing, total, config) ==
    \/ text_bearing >= config.min_text_bearing_images
    \/ /\ total > 0
       /\ text_bearing * 100 >= config.min_text_bearing_ratio_pct * total

Decision(a, c) == [action |-> a, cat |-> c, detail |-> "none"]

\* _decide_ocr_action
DecideOcrAction_ShortDocStrict(content, config) ==
    LET word_count == content.word_count
        text_bearing_images == TextBearingCount(content.images, config)
        total_images == Len(content.images)
        significant ==
            SignificantTextImages(text_bearing_images, total_images, config)
    IN  IF ~content.present
        THEN Decision("FULL_PAGE_OCR", "No content extracted")
        ELSE IF word_count < config.scanned_pdf_max_words
                /\ total_images > 0 /\ text_bearing_images > 0
        THEN Decision("FULL_PAGE_OCR", "Scanned pattern")
        ELSE IF word_count = 0
        THEN Decision("FULL_PAGE_OCR", "No text extracted")
        ELSE IF word_count >= config.min_word_count_sufficient
        THEN IF significant
             THEN Decision("OCR_IMAGES_ONLY", "Text OK")
             ELSE Decision("SKIP_OCR", "Text sufficient")
        ELSE IF word_count > ShortDocWords
        THEN IF significant
             THEN Decision("OCR_IMAGES_ONLY", "Short doc, has text images")
             ELSE Decision("SKIP_OCR", "Short doc, no significant images")
        ELSE IF total_images > 0
        THEN Decision("FULL_PAGE_OCR", "Very low text with images")
        ELSE Decision("SKIP_OCR", "Sparse text-only page")

DecideOcrAction(content, config) ==
    LET word_count == content.word_count
        text_bearing_images == TextBearingCount(content.images, config)
        total_images == Len(content.images)
        significant ==
            SignificantTextImages(text_bearing_images, total_images, config)
    IN  IF ~content.present
        THEN Decision("FULL_PAGE_OCR", "No content extracted")
        ELSE IF word_count < config.scanned_pdf_max_words
                /\ total_images > 0 /\ text_bearing_images > 0
        THEN Decision("FULL_PAGE_OCR", "Scanned pattern")
        ELSE IF word_count = 0
        THEN Decision("FULL_PAGE_OCR", "No text extracted")
        ELSE IF word_count >= config.min_word_count_sufficient
        THEN IF significant
             THEN Decision("OCR_IMAGES_ONLY", "Text OK")
             ELSE Decision("SKIP_OCR", "Text sufficient")
        ELSE IF word_count >= ShortDocWords
        THEN IF significant
             THEN Decision("OCR_IMAGES_ONLY", "Short doc, has text images")
             ELSE Decision("SKIP_OCR", "Short doc, no significant images")
        ELSE IF total_images > 0
        THEN Decision("FULL_PAGE_OCR", "Very low text with images")
        ELSE Decision("SKIP_OCR", "Sparse text-only page")

\* the exceptions deciding a page may raise (their messages); "none": the
\* page's data is well-formed and nothing is raised
Faults == {"none", "TypeError", "AttributeError"}

\* one iteration of the loop of process(): the try block and its handler
DecidePage_SkipOnError(page, config) ==
    IF page.fault # "none"
    THEN [page EXCEPT !.ocr_action = "SKIP_OCR",
                      !.ocr_reason = [action |-> "SKIP_OCR",
                                      cat |-> "Decision failed",
                                      detail |-> page.fault]]
    ELSE LET d == DecideOcrAction(page.content, config)
         IN  [page EXCEPT !.ocr_action = d.action, !.ocr_reason = d]

DecidePage(page, config) ==
    IF page.fault # "none"
    THEN [page EXCEPT !.ocr_action = "FULL_PAGE_OCR",
                      !.ocr_reason = [action |-> "FULL_PAGE_OCR",
                                      cat |-> "Decision failed",
                                      detail |-> page.fault]]
    ELSE LET d == DecideOcrAction(page.content, config)
         IN  [page EXCEPT !.ocr_action = d.action, !.ocr_reason = d]

\* OCRDecisionStage.process
OCRDecisionStage_process ==
    /\ ~ocrDone
    /\ pages' = [i \in DOMAIN pages |-> DecidePage(pages[i], ocrConfig)]
    /\ ocrDone' = TRUE
    /\ UNCHANGED ocrConfig

NoDecision == [action |-> "none", cat |-> "none", detail |-> "none"]

\* a page as the earlier stages leave it
NewPage(content, fault) ==
    [content |-> content, fault |-> fault,
     ocr_action |-> "none", ocr_reason |-> NoDecision]

NoContent == [present |-> FALSE, word_count |-> 0, images |-> <<>>]

ImageLists(n) == UNION {[1..k -> SampleImages] : k \in 0..n}

\* every content with up to MaxWords words and MaxImages images
AllContents ==
    {NoContent} \cup
    {[present |-> TRUE, word_count |-> w, images |-> imgs] :
        w \in 0..MaxWords, imgs \in ImageLists(MaxImages)}

\* contents on either side of each threshold, with at most one image
EdgeWords == {0, 10, ShortDocWords, DefaultMinWords}
EdgeImages == {<<>>, <<[width |-> 100, height |-> 100]>>,
               <<[width |-> 800, height |-> 600]>>}
EdgeContents ==
    {NoContent} \cup
    {[present |-> TRUE, word_count |-> w, images |-> imgs] :
        w \in EdgeWords, imgs \in EdgeImages}

\* one well-formed page, every content
InitOcrDecide ==
    /\ ocrConfig \in OcrConfigs
    /\ \E c \in AllContents : pages = <<NewPage(c, "none")>>
    /\ ocrDone = FALSE

\* a document of up to MaxPages pages, some of which make the decision raise
InitOcrStage ==
    /\ ocrConfig \in OcrConfigs
    /\ \E n \in 1..MaxPages :
        pages \in [1..n -> {NewPage(c, f) : c \in EdgeContents, f \in Faults}]
    /\ ocrDone = FALSE

IdleOcr ==
    /\ ocrConfig = DefaultOcrConfig
    /\ pages = <<>>
    /\ ocrDone = FALSE

\* ------------------------------------------------- OCRDecisionStage claims

\* the rule table of the decision over (word_count, image_count,
\* text_bearing_count): the first rule that matches gives the action
RuleSignificant(tb, ic, config) ==
    \/ tb >= config.min_text_bearing_images
    \/ (ic > 0 /\ tb * 100 >= config.min_text_bearing_ratio_pct * ic)

RuleTable(wc, ic, tb, config) ==
    CASE wc < config.scanned_pdf_max_words /\ ic > 0 /\ tb > 0 ->
            <<"FULL_PAGE_OCR", "Scanned pattern">>
      [] ~(wc < config.scanned_pdf_max_words /\ ic > 0 /\ tb > 0) /\ wc = 0 ->
            <<"FULL_PAGE_OCR", "No text extracted">>
      [] ~(wc < config.scanned_pdf_max_words /\ ic > 0 /\ tb > 0) /\ wc # 0
         /\ wc >= config.min_word_count_sufficient ->
            IF RuleSignificant(tb, ic, config)
            THEN <<"OCR_IMAGES_ONLY", "Text OK">>
            ELSE <<"SKIP_OCR", "Text sufficient">>
      [] ~(wc < config.scanned_pdf_max_words /\ ic > 0 /\ tb > 0) /\ wc # 0
         /\ 30 <= wc /\ wc < config.min_word_count_sufficient ->
            IF RuleSignificant(tb, ic, config)
            THEN <<"OCR_IMAGES_ONLY", "Short doc, has text images">>
            ELSE <<"SKIP_OCR", "Short doc, no significant images">>
      [] ~(wc < config.scanned_pdf_max_words /\ ic > 0 /\ tb > 0) /\ wc # 0
         /\ wc < config.min_word_count_sufficient /\ wc < 30 ->
            IF ic > 0
            THEN <<"FULL_PAGE_OCR", "Very low text with images">>
            ELSE <<"SKIP_OCR", "Sparse text-only page">>

\* C9: for every (word_count, image_count, text_bearing_count) the decision
\* is the action of the first matching rule of the table (scanned pattern,
\* no text, sufficient text, short document, very low text), and the action
\* and reason category depend on nothing but that triple.
C9_DecisionFollowsRuleTable ==
    ocrDone =>
        \A i \in DOMAIN pages :
            (pages[i].fault = "none" /\ pages[i].content.present) =>
                LET wc == pages[i].content.word_count
                    ic == Len(pages[i].content.images)
                    tb == TextBearingCount(pages[i].content.images, ocrConfig)
                    rule == RuleTable(wc, ic, tb, ocrConfig)
                IN  /\ tb <= ic
                    /\ pages[i].ocr_action = rule[1]
                    /\ pages[i].ocr_reason.cat = rule[2]

\* a short document decided images-only through the ratio test alone
C9_Witness ==
    /\ ocrDone
    /\ \E i \in DOMAIN pages :
        /\ pages[i].content.present
        /\ pages[i].content.word_count = 30
        /\ pages[i].ocr_action = "OCR_IMAGES_ONLY"
        /\ TextBearingCount(pages[i].content.images, ocrConfig)
              < ocrConfig.min_text_bearing_images

\* C10: a page whose decision raises ends with ocr_action = full_page and a
\* reason holding the exception message, never with skip or no action, and
\* the other pages are decided as they would be without it.
C10_ExceptionGivesFullPage ==
    ocrDone =>
        \A i \in DOMAIN pages :
            /\ pages[i].ocr_action # "none"
            /\ pages[i].fault # "none" =>
                /\ pages[i].ocr_action = "FULL_PAGE_OCR"
                /\ pages[i].ocr_reason.cat = "Decision failed"
                /\ pages[i].ocr_reason.detail = pages[i].fault
            /\ pages[i].fault = "none" =>
                pages[i].ocr_reason = DecideOcrAction(pages[i].content, ocrConfig)

\* a page whose decision raised, followed by a page decided as skip
C10_Witness ==
    /\ ocrDone
    /\ \E i, j \in DOMAIN pages :
        /\ i < j
        /\ pages[i].fault # "none"
        /\ pages[i].ocr_action = "FULL_PAGE_OCR"
        /\ pages[j].fault = "none"
        /\ pages[j].ocr_action = "SKIP_OCR"

\* ------------------------------------------------------------ CrawlerWorker

TaskIds == 1..NumTasks
Workers == 1..NumWorkers
\* what crawling a site may raise
CrawlErrors == {"timeout", "dns failure"}
\* a CrawlTask, or an object of another type put on the crawl queue
TaskKinds == {"CrawlTask", "ProcessTask"}

InQueue(t) == \E i \in DOMAIN crawl_queue : crawl_queue[i] = t
QueueCount(t) == Cardinality({i \in DOMAIN crawl_queue : crawl_queue[i] = t})
DeadLetterCount(t) ==
    Cardinality({i \in DOMAIN dead_letter : dead_letter[i].task = t})
Held(t) == \E w \in Workers : holding[w] = t
HolderCount(t) == Cardinality({w \in Workers : holding[w] = t})

\* task envelope as created: queued once it is put on a queue
NewTask(kind, max_retries) ==
    [kind |-> kind, status |-> "new", retry_count |-> 0,
     max_retries |-> max_retries, failure_reason |-> "none"]

\* CrawlTask.mark_started / mark_completed / mark_failed
MarkStarted(task) == [task EXCEPT !.status = "running"]
MarkCompleted(task) == [task EXCEPT !.status = "completed"]
MarkFailed(task, e) ==
    [task EXCEPT !.status = "failed", !.failure_reason = e,
                 !.retry_count = task.retry_count + 1]

\* QueueManager.put_crawl_task: the task joins the bounded crawl queue and
\* is queued again
PutCrawlTask(queue, t) == Append(queue, t)
Requeued(task) == [task EXCEPT !.status = "queued"]
\* QueueManager.put_dead_letter: the task joins the dead-letter queue with
\* its terminal reason
PutDeadLetter(dl, t, reason) == Append(dl, [task |-> t, reason |-> reason])
DeadLettered(task, reason) ==
    [task EXCEPT !.status = "dead_letter", !.failure_reason = reason]

\* the orchestrator submits a task to the crawl queue
SubmitTask(t) ==
    /\ tasks[t].status = "new"
    /\ Len(crawl_queue) < QueueCap
    /\ crawl_queue' = PutCrawlTask(crawl_queue, t)
    /\ tasks' = [tasks EXCEPT ![t].status = "queued"]
    /\ wkLast' = [op |-> "submit", task |-> t, retry |-> 0, e |-> "none"]
    /\ UNCHANGED <<dead_letter, holding, execCount>>

\* a worker takes the next task (get_next_task) and enters process_task:
\* an object that is no CrawlTask is logged and given up (return False),
\* a CrawlTask is marked started and its crawl begins
CrawlerWorker_take(w) ==
    /\ holding[w] = 0
    /\ crawl_queue # <<>>
    /\ LET t == Head(crawl_queue)
       IN  /\ crawl_queue' = Tail(crawl_queue)
           /\ IF tasks[t].kind # "CrawlTask"
              THEN /\ wkLast' = [op |-> "wrong_type", task |-> t,
                                 retry |-> tasks[t].retry_count, e |-> "none"]
                   /\ UNCHANGED <<tasks, holding, execCount>>
              ELSE /\ tasks' = [tasks EXCEPT ![t] = MarkStarted(tasks[t])]
                   /\ holding' = [holding EXCEPT ![w] = t]
                   /\ execCount' = [execCount EXCEPT ![t] = execCount[t] + 1]
                   /\ wkLast' = [op |-> "start", task |-> t,
                                 retry |-> tasks[t].retry_count, e |-> "none"]
    /\ UNCHANGED dead_letter

\* the crawl returned and its pages were queued, and the worker returns
\* without marking the task
CrawlerWorker_complete_NoMark(w) ==
    /\ holding[w] # 0
    /\ wkLast' = [op |-> "complete", task |-> holding[w],
                  retry |-> tasks[holding[w]].retry_count, e |-> "none"]
    /\ holding' = [holding EXCEPT ![w] = 0]
    /\ UNCHANGED <<tasks, crawl_queue, dead_letter, execCount>>

\* the crawl returned and its pages were queued: mark_completed, return True
CrawlerWorker_complete(w) ==
    /\ holding[w] # 0
    /\ LET t == holding[w]
       IN  /\ tasks' = [tasks EXCEPT ![t] = MarkCompleted(tasks[t])]
           /\ wkLast' = [op |-> "complete", task |-> t,
                         retry |-> tasks[t].retry_count, e |-> "none"]
    /\ holding' = [holding EXCEPT ![w] = 0]
    /\ UNCHANGED <<crawl_queue, dead_letter, execCount>>

\* the except branch of process_task for task t and exception e: the new
\* task envelopes, crawl queue and dead-letter queue
OnCrawlFailure_StrictlyGreater(t, e) ==
    IF tasks[t].retry_count > tasks[t].max_retries
    THEN [tasks |-> [tasks EXCEPT ![t] = DeadLettered(tasks[t], e)],
          queue |-> crawl_queue,
          dead |-> PutDeadLetter(dead_letter, t, <<"Max retries exceeded", e>>)]
    ELSE [tasks |-> [tasks EXCEPT ![t] = Requeued(MarkFailed(tasks[t], e))],
          queue |-> PutCrawlTask(crawl_queue, t),
          dead |-> dead_letter]

OnCrawlFailure_NoMarkFailed(t, e) ==
    IF tasks[t].retry_count >= tasks[t].max_retries
    THEN [tasks |-> [tasks EXCEPT ![t] = DeadLettered(tasks[t], e)],
          queue |-> crawl_queue,
          dead |-> PutDeadLetter(dead_letter, t, <<"Max retries exceeded", e>>)]
    ELSE [tasks |-> [tasks EXCEPT ![t] = Requeued(tasks[t])],
          queue |-> PutCrawlTask(crawl_queue, t),
          dead |-> dead_letter]

OnCrawlFailure(t, e) ==
    IF tasks[t].retry_count >= tasks[t].max_retries
    THEN [tasks |-> [tasks EXCEPT ![t] = DeadLettered(tasks[t], e)],
          queue |-> crawl_queue,
          dead |-> PutDeadLetter(dead_letter, t, <<"Max retries exceeded", e>>)]
    ELSE [tasks |-> [tasks EXCEPT ![t] = Requeued(MarkFailed(tasks[t], e))],
          queue |-> PutCrawlTask(crawl_queue, t),
          dead |-> dead_letter]

\* the crawl raised e: the except branch, return False. put_crawl_task
\* waits while the bounded queue is full.
CrawlerWorker_fail(w, e) ==
    /\ holding[w] # 0
    /\ LET t == holding[w]
           r == OnCrawlFailure(t, e)
       IN  /\ Len(r.queue) <= QueueCap
           /\ tasks' = r.tasks
           /\ crawl_queue' = r.queue
           /\ dead_letter' = r.dead
           /\ wkLast' = [op |-> "fail", task |-> t,
                         retry |-> tasks[t].retry_count, e |-> e]
    /\ holding' = [holding EXCEPT ![w] = 0]
    /\ UNCHANGED execCount

InitWK ==
    /\ \E m \in 0..MaxRetries :
        tasks \in [TaskIds -> {NewTask(k, m) : k \in TaskKinds}]
    /\ crawl_queue = <<>>
    /\ dead_letter = <<>>
    /\ holding = [w \in Workers |-> 0]
    /\ execCount = [t \in TaskIds |-> 0]
    /\ wkLast = [op |-> "init", task |-> 0, retry |-> 0, e |-> "none"]

IdleWK ==
    /\ tasks = [t \in TaskIds |-> NewTask("CrawlTask", 0)]
    /\ crawl_queue = <<>>
    /\ dead_letter = <<>>
    /\ holding = [w \in Workers |-> 0]
    /\ execCount = [t \in TaskIds |-> 0]
    /\ wkLast = [op |-> "init", task |-> 0, retry |-> 0, e |-> "none"]

\* ----------------------------------------------------- CrawlerWorker claims

\* C1: a crawl that fails for a task whose retry_count has reached
\* max_retries puts the task on the dead-letter queue and not back on the
\* crawl queue; a task is dead-lettered at most once and is never queued
\* or started again after that.
C1_DeadLetteredOnceNeverRequeued ==
    /\ (wkLast.op = "fail"
        /\ wkLast.retry >= tasks[wkLast.task].max_retries) =>
            /\ dead_letter # <<>>
            /\ dead_letter[Len(dead_letter)] =
                  [task |-> wkLast.task,
                   reason |-> <<"Max retries exceeded", wkLast.e>>]
            /\ ~InQueue(wkLast.task)
    /\ (wkLast.op = "fail"
        /\ wkLast.retry < tasks[wkLast.task].max_retries) =>
            DeadLetterCount(wkLast.task) = 0
    /\ \A t \in TaskIds :
        /\ DeadLetterCount(t) <= 1
        /\ DeadLetterCount(t) = 1 => (~InQueue(t) /\ ~Held(t))

\* a task dead-lettered on the failure of its last retry
C1_Witness ==
    /\ wkLast.op = "fail"
    /\ tasks[wkLast.task].max_retries >= 1
    /\ wkLast.retry = tasks[wkLast.task].max_retries
    /\ DeadLetterCount(wkLast.task) = 1

\* C2: a crawl that fails while retry_count < max_retries records the error
\* as failure reason, increases retry_count by exactly 1 and puts the task
\* once on the crawl queue and not on the dead-letter queue; a task is
\* started at most max_retries + 1 times.
C2_RetryRequeuesOnce ==
    /\ (wkLast.op = "fail"
        /\ wkLast.retry < tasks[wkLast.task].max_retries) =>
            /\ tasks[wkLast.task].retry_count = wkLast.retry + 1
            /\ tasks[wkLast.task].failure_reason = wkLast.e
            /\ tasks[wkLast.task].status = "queued"
            /\ QueueCount(wkLast.task) = 1
            /\ DeadLetterCount(wkLast.task) = 0
    /\ \A t \in TaskIds : execCount[t] <= tasks[t].max_retries + 1

\* a second failure of a task that still has a retry left
C2_Witness ==
    /\ wkLast.op = "fail"
    /\ wkLast.retry >= 1
    /\ wkLast.retry < tasks[wkLast.task].max_retries
    /\ tasks[wkLast.task].retry_count = wkLast.retry + 1
    /\ execCount[wkLast.task] = wkLast.retry + 1

\* C3: every task taken from the crawl queue ends process_task completed,
\* back on the crawl queue or on the dead-letter queue: a submitted task is
\* always in exactly one of these places or held by a worker.
TaskPlaces(t) ==
    QueueCount(t) + HolderCount(t) + DeadLetterCount(t)
        + (IF tasks[t].status = "completed" THEN 1 ELSE 0)

C3_NoTaskLost ==
    \A t \in TaskIds : tasks[t].status # "new" => TaskPlaces(t) = 1

\* ------------------------------------------------------------- CrawlerStage

\* CrawlerStage.setup: a new RateLimiter and a new ContentFilter
CrawlerStage_setup(request_delay, sd) ==
    /\ base_delay' = request_delay
    /\ max_delay' = MaxDelayCap
    /\ backoff_factor' = 2
    /\ current_delay' = request_delay
    /\ last_request_time' = 0
    /\ consecutive_failures' = 0
    /\ rlLastOp' = [op |-> "init", k |-> 0]
    /\ failRun' = 0
    /\ lastReturn' = -1
    /\ gapOK' = TRUE
    /\ skip_duplicates' = sd
    /\ seen_hashes' = {}
    /\ cfAsked' = {}
    /\ cfLast' = [op |-> "init", h |-> 0, result |-> FALSE, asked |-> FALSE]
    /\ UNCHANGED <<now, wpc, wake, cfCalls>>

\* CrawlerWorker.startup: the stage's setup(), once per worker
CrawlerWorker_startup ==
    /\ stageOwner = "worker"
    /\ ~stageReady
    /\ \E b \in 1..MaxBase, sd \in BOOLEAN : CrawlerStage_setup(b, sd)
    /\ stageReady' = TRUE
    /\ UNCHANGED <<stageOwner, crawlPc, runCount, urlsTaken, crDocVars,
                   ocrVars, wkVars, chVars, plVars, orVars, svVars>>

\* Document(start_url, output_dir) as the worker and the pipeline build it
CrawlDocument == [pages |-> <<>>, pages_failed |-> 0, pages_skipped |-> 0]

\* Document.pages_scraped: the pages that were fetched and read
PagesScraped(document) ==
    Cardinality({i \in DOMAIN document.pages : document.pages[i] = "html"})

\* a run of process() on a new Document
NewCrawl ==
    /\ crDocument' = CrawlDocument
    /\ crQueue' = 0
    /\ crDiscovered' = 0
    /\ crPdfUrls' = 0
    /\ crCounted' = {}

\* CrawlerWorker.process_task for the next CrawlTask: it calls the stage's
\* process() on a new Document
CrawlerWorker_process_task ==
    /\ stageOwner = "worker"
    /\ stageReady
    /\ crawlPc = "idle"
    /\ runCount < MaxRuns
    /\ crawlPc' = "start"
    /\ runCount' = runCount + 1
    /\ urlsTaken' = 0
    /\ NewCrawl
    /\ UNCHANGED <<stageOwner, stageReady, rlVars, cfVars, ocrVars, wkVars,
                   chVars, plVars, orVars, svVars>>

\* WebScrapingPipeline.run reaching the crawler stage: PipelineStage.run
\* calls setup() and then process()
Pipeline_run_crawler ==
    /\ stageOwner = "pipeline"
    /\ crawlPc = "idle"
    /\ runCount < MaxRuns
    /\ \E b \in 1..MaxBase, sd \in BOOLEAN : CrawlerStage_setup(b, sd)
    /\ stageReady' = TRUE
    /\ crawlPc' = "start"
    /\ runCount' = runCount + 1
    /\ urlsTaken' = 0
    /\ NewCrawl
    /\ UNCHANGED <<stageOwner, ocrVars, wkVars,
                   chVars, plVars, orVars, svVars>>

\* process(), before the loop: robots.txt may raise base_delay to the
\* site's crawl delay (0: none, or robots.txt not respected); the start
\* URL and the URLs of the sitemap are put on the crawl queue
CrawlerStage_process_begin(crawl_delay, sitemap_urls) ==
    /\ crawlPc = "start"
    /\ base_delay' = RaisedBaseDelay(crawl_delay)
    /\ crawlPc' = "loop"
    /\ crQueue' = 1 + sitemap_urls
    /\ crDiscovered' = 1 + sitemap_urls
    /\ UNCHANGED <<max_delay, backoff_factor, current_delay,
                   last_request_time, consecutive_failures, now, wpc, wake,
                   rlLastOp, failRun, lastReturn, gapOK>>
    /\ UNCHANGED <<stageOwner, stageReady, runCount, urlsTaken,
                   crDocument, crPdfUrls, crCounted,
                   cfVars, ocrVars, wkVars,
                   chVars, plVars, orVars, svVars>>

\* while not queue.empty() and len(visited) < max_pages
LoopGoesOn == crQueue > 0 /\ urlsTaken < MaxUrlsPerRun

\* the loop takes a URL it has visited already
CrawlerStage_loop_visited ==
    /\ crawlPc = "loop"
    /\ LoopGoesOn
    /\ urlsTaken > 0
    /\ crQueue' = crQueue - 1
    /\ crCounted' = {}
    /\ UNCHANGED <<stageOwner, stageReady, crawlPc, runCount, urlsTaken,
                   crDocument, crDiscovered, crPdfUrls,
                   rlVars, cfVars, ocrVars, wkVars, chVars, plVars, orVars, svVars>>

\* the loop takes a URL the content filter or robots.txt rules out
CrawlerStage_loop_skip ==
    /\ crawlPc = "loop"
    /\ LoopGoesOn
    /\ crQueue' = crQueue - 1
    /\ crDocument' = [crDocument EXCEPT !.pages_skipped = @ + 1]
    /\ crCounted' = {"pages_skipped"}
    /\ UNCHANGED <<stageOwner, stageReady, crawlPc, runCount, urlsTaken,
                   crDiscovered, crPdfUrls,
                   rlVars, cfVars, ocrVars, wkVars, chVars, plVars, orVars, svVars>>

\* the loop takes the URL of a PDF and sets it aside
CrawlerStage_loop_pdf ==
    /\ crawlPc = "loop"
    /\ LoopGoesOn
    /\ crQueue' = crQueue - 1
    /\ urlsTaken' = urlsTaken + 1
    /\ crPdfUrls' = crPdfUrls + 1
    /\ crCounted' = {}
    /\ UNCHANGED <<stageOwner, stageReady, crawlPc, runCount,
                   crDocument, crDiscovered,
                   rlVars, cfVars, ocrVars, wkVars, chVars, plVars, orVars, svVars>>

\* the loop takes a URL and calls the limiter's wait()
CrawlerStage_loop_wait ==
    /\ crawlPc = "loop"
    /\ LoopGoesOn
    /\ RateLimiter_wait_begin(1)
    /\ crawlPc' = IF WaitTime > 0 THEN "waiting" ELSE "fetch"
    /\ urlsTaken' = urlsTaken + 1
    /\ crQueue' = crQueue - 1
    /\ crCounted' = {}
    /\ UNCHANGED <<stageOwner, stageReady, runCount,
                   crDocument, crDiscovered, crPdfUrls,
                   cfVars, ocrVars, wkVars,
                   chVars, plVars, orVars, svVars>>

\* wait() returns after its sleep
CrawlerStage_loop_wake ==
    /\ crawlPc = "waiting"
    /\ RateLimiter_wait_end(1)
    /\ crawlPc' = "fetch"
    /\ UNCHANGED <<stageOwner, stageReady, runCount, urlsTaken, crDocVars,
                   cfVars, ocrVars, wkVars,
                   chVars, plVars, orVars, svVars>>

\* _crawl_single_page returned a page with content hash h: the duplicate
\* check, add_page and the limiter's success(); the links of a page with
\* html_content are extracted next unless the page is at max_depth
CrawlerStage_page_fetched(h, at_max_depth) ==
    /\ crawlPc = "fetch"
    /\ ContentFilter_is_duplicate_content(h)
    /\ RateLimiter_success
    /\ crDocument' =
        [crDocument EXCEPT !.pages =
            Append(@, IF IsDuplicateResult(h) THEN "duplicate" ELSE "html")]
    /\ crCounted' = IF IsDuplicateResult(h) THEN {} ELSE {"pages_scraped"}
    /\ crawlPc' = IF IsDuplicateResult(h) \/ at_max_depth THEN "loop"
                  ELSE "links"
    /\ UNCHANGED <<stageOwner, stageReady, runCount, urlsTaken,
                   crQueue, crDiscovered, crPdfUrls,
                   ocrVars, wkVars,
                   chVars, plVars, orVars, svVars>>

\* _extract_links_from_html returned: the links not visited yet are put
\* on the crawl queue
CrawlerStage_links_extracted(links) ==
    /\ crawlPc = "links"
    /\ crQueue' = crQueue + links
    /\ crDiscovered' = crDiscovered + links
    /\ crawlPc' = "loop"
    /\ UNCHANGED <<stageOwner, stageReady, runCount, urlsTaken,
                   crDocument, crPdfUrls, crCounted,
                   rlVars, cfVars, ocrVars, wkVars, chVars, plVars, orVars, svVars>>

\* _extract_links_from_html raised (urljoin on a malformed href): the
\* except block of the loop, after add_page and success()
CrawlerStage_links_failed ==
    /\ crawlPc = "links"
    /\ RateLimiter_failure
    /\ crDocument' = [crDocument EXCEPT !.pages_failed = @ + 1]
    /\ crCounted' = crCounted \cup {"pages_failed"}
    /\ crawlPc' = "loop"
    /\ UNCHANGED <<stageOwner, stageReady, runCount, urlsTaken,
                   crQueue, crDiscovered, crPdfUrls,
                   cfVars, ocrVars, wkVars, chVars, plVars, orVars, svVars>>

\* _crawl_single_page raised before the page was read: failure()
CrawlerStage_page_failed ==
    /\ crawlPc = "fetch"
    /\ RateLimiter_failure
    /\ crDocument' = [crDocument EXCEPT !.pages_failed = @ + 1]
    /\ crCounted' = {"pages_failed"}
    /\ crawlPc' = "loop"
    /\ UNCHANGED <<stageOwner, stageReady, runCount, urlsTaken,
                   crQueue, crDiscovered, crPdfUrls,
                   cfVars, ocrVars, wkVars,
                   chVars, plVars, orVars, svVars>>

\* the frontier is empty or the page limit is reached: the loop ends, and
\* process() returns unless PDFs are to be downloaded
CrawlerStage_process_end ==
    /\ crawlPc = "loop"
    /\ ~LoopGoesOn
    /\ crawlPc' = IF crPdfUrls > 0 THEN "pdfs" ELSE "idle"
    /\ UNCHANGED <<stageOwner, stageReady, runCount, urlsTaken, crDocVars,
                   rlVars, cfVars, ocrVars, wkVars,
                   chVars, plVars, orVars, svVars>>

\* for pdf_url in pdf_urls: _download_pdf returns a page or raises
CrawlerStage_download_pdf(downloaded) ==
    /\ crawlPc = "pdfs"
    /\ crPdfUrls' = crPdfUrls - 1
    /\ crDocument' =
        IF downloaded THEN [crDocument EXCEPT !.pages = Append(@, "pdf")]
        ELSE [crDocument EXCEPT !.pages_failed = @ + 1]
    /\ crCounted' = IF downloaded THEN {} ELSE {"pages_failed"}
    /\ crawlPc' = IF crPdfUrls = 1 THEN "idle" ELSE "pdfs"
    /\ UNCHANGED <<stageOwner, stageReady, runCount, urlsTaken,
                   crQueue, crDiscovered,
                   rlVars, cfVars, ocrVars, wkVars, chVars, plVars, orVars, svVars>>

CrawlClock ==
    /\ Tick
    /\ UNCHANGED <<cfVars, ocrVars, wkVars, crVars, chVars, plVars, orVars, svVars>>

NoCrawl ==
    /\ crDocument = CrawlDocument
    /\ crQueue = 0
    /\ crDiscovered = 0
    /\ crPdfUrls = 0
    /\ crCounted = {}

InitCR ==
    /\ stageOwner \in {"worker", "pipeline"}
    /\ stageReady = FALSE
    /\ crawlPc = "idle"
    /\ runCount = 0
    /\ urlsTaken = 0
    /\ NoCrawl

IdleCR ==
    /\ stageOwner = "pipeline"
    /\ stageReady = FALSE
    /\ crawlPc = "idle"
    /\ runCount = 0
    /\ urlsTaken = 0
    /\ NoCrawl

\* -------------------------------------------------------- CrawlerStage claims

\* C4: every crawl run (each CrawlTask a CrawlerWorker processes, each
\* WebScrapingPipeline.run) starts with an empty seen-hash set and a
\* RateLimiter with consecutive_failures = 0 and current_delay = base_delay.
C4_RunStartsFresh ==
    crawlPc = "start" =>
        /\ seen_hashes = {}
        /\ consecutive_failures = 0
        /\ current_delay = base_delay

\* C23: at every point of a crawl pages_scraped + pages_failed +
\* pages_skipped does not exceed the number of URLs put on the crawl queue
\* so far, and a URL taken from the queue increments at most one of the
\* three counters.
C23_CountersWithinDiscovered ==
    /\ PagesScraped(crDocument) + crDocument.pages_failed
            + crDocument.pages_skipped <= crDiscovered
    /\ Cardinality(crCounted) <= 1

\* ------------------------------------------------------------ ChunkerStage

\* ChunkerStage.process: the thresholds used when no config is given
DefaultChunkMinWords == 100
DefaultChunkMaxWords == 300
DefaultChunkOverlap == 30
\* _chunk_page: the fewest words of a child chunk
MinChildWords == 10
\* _get_doc_id: the longest document id
DocIdLimit == 100

DefaultChunkConfig ==
    [dom_chunk_min_words |-> DefaultChunkMinWords,
     dom_chunk_max_words |-> DefaultChunkMaxWords,
     chunk_overlap_words |-> DefaultChunkOverlap]

\* a config.chunker with smaller chunks and the same overlap
SmallChunkConfig ==
    [dom_chunk_min_words |-> 30,
     dom_chunk_max_words |-> 60,
     chunk_overlap_words |-> 30]

ChunkConfigs == {DefaultChunkConfig, SmallChunkConfig}

\* A text is the sequence of its sentences; a sentence is known by its
\* place n in the page's text, its number of words and whether it ends
\* with one of . ! ? (every sentence a split leaves does, the last one of
\* the text possibly excepted).
SentenceWords == {5, 25, 45, 310}

\* len(text.split())
RECURSIVE WordCount(_)
WordCount(text) ==
    IF text = <<>> THEN 0
    ELSE Head(text).words + WordCount(Tail(text))

\* " ".join(parts): the parts one after the other
RECURSIVE Join(_)
Join(parts) ==
    IF parts = <<>> THEN <<>>
    ELSE Head(parts) \o Join(Tail(parts))

\* two pieces of text with no sentence end between them read as one
Glue(a, b) ==
    [n |-> a.n, words |-> a.words + b.words, terminated |-> b.terminated]

\* _split_into_sentences: a split after every sentence end
RECURSIVE SplitIntoSentences(_)
SplitIntoSentences(text) ==
    IF Len(text) <= 1 THEN text
    ELSE IF Head(text).terminated
         THEN <<Head(text)>> \o SplitIntoSentences(Tail(text))
         ELSE SplitIntoSentences(<<Glue(text[1], text[2])>>
                                   \o SubSeq(text, 3, Len(text)))

\* _get_overlap: walking backward over the entries of the list, each
\* entry taken whole while the budget allows it; the result is joined
RECURSIVE OverlapFrom(_, _, _, _)
OverlapFrom(entries, k, word_count, target_words) ==
    IF k = 0 THEN <<>>
    ELSE LET words == WordCount(entries[k])
         IN  IF word_count + words <= target_words
             THEN OverlapFrom(entries, k - 1, word_count + words,
                              target_words) \o entries[k]
             ELSE <<>>

GetOverlap(entries, target_words) ==
    OverlapFrom(entries, Len(entries), 0, target_words)

\* _group_sentences, one pass of its loop: current_chunk is a list of
\* pieces of text, the first of which may be the overlap of the chunk
\* before, kept as one entry
GroupStep(st, sentence, config) ==
    IF st.current_words + sentence.words > config.dom_chunk_max_words
       /\ st.current_words >= config.dom_chunk_min_words
    THEN LET overlap_text == GetOverlap(st.current_chunk,
                                        config.chunk_overlap_words)
         IN  [chunks |-> Append(st.chunks, Join(st.current_chunk)),
              current_chunk |->
                  (IF overlap_text # <<>> THEN <<overlap_text>> ELSE <<>>)
                      \o <<<<sentence>>>>,
              current_words |-> WordCount(overlap_text) + sentence.words]
    ELSE [chunks |-> st.chunks,
          current_chunk |-> Append(st.current_chunk, <<sentence>>),
          current_words |-> st.current_words + sentence.words]

RECURSIVE GroupLoop(_, _, _)
GroupLoop(st, sentences, config) ==
    IF sentences = <<>> THEN st
    ELSE GroupLoop(GroupStep(st, Head(sentences), config),
                   Tail(sentences), config)

\* _group_sentences: the loop, then the last chunk
GroupSentences(sentences, config) ==
    LET st == GroupLoop([chunks |-> <<>>, current_chunk |-> <<>>,
                         current_words |-> 0], sentences, config)
    IN  IF st.current_chunk # <<>>
           /\ st.current_words >= config.dom_chunk_min_words \div 2
        THEN Append(st.chunks, Join(st.current_chunk))
        ELSE st.chunks

\* a URL: its host and its path, each a string of characters
PageUrls ==
    {[netloc |-> <<"h">>, path |-> <<"/", "a", "/", "b">>],
     [netloc |-> <<"h">>, path |-> <<"/", "a", "_", "b", "/">>],
     [netloc |-> <<"g">>, path |-> <<>>]}

\* str.replace("/", "_")
ReplaceSlash(str) ==
    [i \in DOMAIN str |-> IF str[i] = "/" THEN "_" ELSE str[i]]

\* str.strip("_")
RECURSIVE StripLeft(_)
StripLeft(str) ==
    IF str # <<>> /\ Head(str) = "_" THEN StripLeft(Tail(str)) ELSE str

RECURSIVE StripRight(_)
StripRight(str) ==
    IF str # <<>> /\ str[Len(str)] = "_"
    THEN StripRight(SubSeq(str, 1, Len(str) - 1))
    ELSE str

Strip(str) == StripRight(StripLeft(str))

\* _get_doc_id: f"{netloc}_{path}"[:100]
GetDocId(url) ==
    LET path == Strip(ReplaceSlash(url.path))
        id == url.netloc \o <<"_">> \o path
    IN  SubSeq(id, 1, Min(Len(id), DocIdLimit))

\* f"{doc_id}_chunk_{i}" with a fresh token per run in it
ChunkId_PerRun(doc_id, i) == <<doc_id, "chunk", i, chRuns>>
\* f"{doc_id}_chunk_{i}"
ChunkId(doc_id, i) == <<doc_id, "chunk", i>>

\* f"{chunk_id}_child_{j}"
ChildId(chunk_id, j) == <<chunk_id, "child", j>>

\* _chunk_page: the parent made of chunk i (counted from 0)
ParentOf(page, chunk_text, i) ==
    [id |-> ChunkId(GetDocId(page.url), i),
     text |-> chunk_text,
     doc_id |-> GetDocId(page.url),
     url |-> page.url,
     chunk_index |-> i,
     type |-> "parent",
     word_count |-> WordCount(chunk_text),
     source |-> page.source]

\* _chunk_page: every sentence is made a child
IsChild_Always(sent) == TRUE
\* _chunk_page: a sentence is made a child if it has the minimum of words
IsChild(sent) == WordCount(<<sent>>) >= MinChildWords

\* _chunk_page: the children of one parent, from sentence j (counted from
\* 0) of its text on
RECURSIVE ChildrenFrom(_, _, _)
ChildrenFrom(parent, child_sentences, j) ==
    IF j >= Len(child_sentences) THEN <<>>
    ELSE LET sent == child_sentences[j + 1]
         IN  (IF IsChild(sent)
              THEN <<[id |-> ChildId(parent.id, j),
                      text |-> <<sent>>,
                      parent_id |-> parent.id,
                      doc_id |-> parent.doc_id,
                      url |-> parent.url,
                      type |-> "child",
                      word_count |-> WordCount(<<sent>>),
                      source |-> parent.source]>>
              ELSE <<>>)
             \o ChildrenFrom(parent, child_sentences, j + 1)

RECURSIVE ChildrenOfAll(_, _)
ChildrenOfAll(parents, i) ==
    IF i > Len(parents) THEN <<>>
    ELSE ChildrenFrom(parents[i], SplitIntoSentences(parents[i].text), 0)
         \o ChildrenOfAll(parents, i + 1)

\* _chunk_page
ChunkPage(page, config) ==
    LET sentences == SplitIntoSentences(page.text)
        chunks == GroupSentences(sentences, config)
        parents == [i \in DOMAIN chunks |-> ParentOf(page, chunks[i], i - 1)]
    IN  [parents |-> parents, children |-> ChildrenOfAll(parents, 1)]

\* ChunkerStage.process on a document of one page: a page without text is
\* passed over
ChunkerStage_process ==
    /\ chRuns < MaxChunkRuns
    /\ chRuns' = chRuns + 1
    /\ chPrev' = [parents |-> chParents, children |-> chChildren]
    /\ IF chPage.text = <<>>
       THEN UNCHANGED <<chParents, chChildren>>
       ELSE LET out == ChunkPage(chPage, chConfig)
            IN  /\ chParents' = out.parents
                /\ chChildren' = out.children
    /\ UNCHANGED <<chConfig, chPage>>

\* the sentences a split can leave: counted from 1, each but the last
\* ending with a sentence end
SentenceLists(n) ==
    UNION {{[i \in 1..k |-> [n |-> i, words |-> ws[i],
                             terminated |-> (i < k \/ t)]] :
                ws \in [1..k -> SentenceWords], t \in BOOLEAN} : k \in 0..n}

\* a page with extracted text, not chunked yet
InitCH ==
    /\ chConfig \in ChunkConfigs
    /\ \E u \in PageUrls, text \in SentenceLists(MaxSentences) :
        chPage = [url |-> u, text |-> text, source |-> "DOM"]
    /\ chParents = <<>>
    /\ chChildren = <<>>
    /\ chRuns = 0
    /\ chPrev = [parents |-> <<>>, children |-> <<>>]

IdleCH ==
    /\ chConfig = DefaultChunkConfig
    /\ chPage = [url |-> [netloc |-> <<"g">>, path |-> <<>>],
                 text |-> <<>>, source |-> "DOM"]
    /\ chParents = <<>>
    /\ chChildren = <<>>
    /\ chRuns = 0
    /\ chPrev = [parents |-> <<>>, children |-> <<>>]

\* ----------------------------------------------------- ChunkerStage claims

\* the sentences given to _group_sentences and the chunks it returned
Sentences == SplitIntoSentences(chPage.text)
ChunkTexts == [i \in DOMAIN chParents |-> chParents[i].text]
Chunked == chRuns > 0 /\ chPage.text # <<>>

\* C15: for every list of sentences, every parent chunk has
\* word_count >= min_words / 2, and there are zero parent chunks if and
\* only if the list is empty.
C15_ChunksHalfMinAndNoneOnlyIfEmpty ==
    chRuns > 0 =>
        /\ \A i \in DOMAIN chParents :
            2 * chParents[i].word_count >= chConfig.dom_chunk_min_words
        /\ (chParents = <<>>) <=> (Sentences = <<>>)

\* the longest run of whole trailing sentences of a text with at most
\* budget words
LastSentences(text, k) == SubSeq(text, Len(text) - k + 1, Len(text))
TrailingRun(text, budget) ==
    LET fits == {k \in 0..Len(text) :
                    WordCount(LastSentences(text, k)) <= budget}
        longest == CHOOSE k \in fits : \A m \in fits : m <= k
    IN  LastSentences(text, longest)

\* C16: each parent chunk after the first begins with the overlap of the
\* chunk before it, the longest run of whole trailing sentences of that
\* chunk with at most overlap_words words, and goes on with the sentence
\* that follows that chunk.
C16_NextChunkBeginsWithOverlap ==
    Chunked =>
        \A i \in DOMAIN ChunkTexts :
            i < Len(ChunkTexts) =>
                LET p == ChunkTexts[i]
                    q == ChunkTexts[i + 1]
                    ov == TrailingRun(p, chConfig.chunk_overlap_words)
                IN  /\ WordCount(ov) <= chConfig.chunk_overlap_words
                    /\ Len(q) > Len(ov)
                    /\ SubSeq(q, 1, Len(ov)) = ov
                    /\ q[Len(ov) + 1].n = p[Len(p)].n + 1

\* C17: every parent chunk but the last has between min_words and
\* max_words words.
C17_InnerChunksWithinBounds ==
    Chunked =>
        \A i \in DOMAIN chParents :
            i < Len(chParents) =>
                /\ chParents[i].word_count >= chConfig.dom_chunk_min_words
                /\ chParents[i].word_count <= chConfig.dom_chunk_max_words

ChildrenOfParent(p) ==
    {c \in DOMAIN chChildren : chChildren[c].parent_id = chParents[p].id}

\* C18: in the output of chunking a page every child has at least 10
\* words and the parent_id of exactly one parent of the same output, and
\* every chunk the grouping returned is a parent of the output, with or
\* without children.
C18_ChildrenResolveAndParentsKept ==
    Chunked =>
        /\ \A c \in DOMAIN chChildren :
            /\ chChildren[c].word_count >= 10
            /\ Cardinality({p \in DOMAIN chParents :
                    chParents[p].id = chChildren[c].parent_id}) = 1
        /\ ChunkTexts = GroupSentences(Sentences, chConfig)

\* a parent none of whose sentences gave a child, next to one with a child
C18_Witness ==
    /\ Chunked
    /\ \E p, q \in DOMAIN chParents :
        /\ ChildrenOfParent(p) = {}
        /\ ChildrenOfParent(q) # {}

\* C19: grouping drops no text: every sentence of the input is in at
\* least one parent chunk, those of the trailing group included, and the
\* sentences of each chunk are in input order.
C19_NoSentenceDropped ==
    Chunked =>
        /\ \A s \in DOMAIN Sentences :
            \E i \in DOMAIN ChunkTexts :
                \E j \in DOMAIN ChunkTexts[i] :
                    ChunkTexts[i][j] = Sentences[s]
        /\ \A i \in DOMAIN ChunkTexts :
            \A j \in DOMAIN ChunkTexts[i] :
                j < Len(ChunkTexts[i]) =>
                    ChunkTexts[i][j].n < ChunkTexts[i][j + 1].n

Ids(chunks) == [i \in DOMAIN chunks |-> chunks[i].id]

DefaultStages ==
    <<"crawler", "text_extractor", "ocr_decision", "ocr_processor",
      "language_filter", "chunker">>

\* add_stage
AddStage(stages, stage) == Append(stages, stage)

\* what a hook of a stage (setup, process, teardown) may do
HookOutcomes == {"ok", "raise"}

\* what may go wrong with a single page, and in which stage
PageFailures == {"none", "crawl", "extract", "ocr", "chunk"}

\* Document as run() constructs it
NewDocument == [pages |-> <<>>, pages_failed |-> 0]

TextOf(words) ==
    [i \in 1..Len(words) |-> [n |-> i, words |-> words[i], terminated |-> TRUE]]

\* OCR_MAX_BBOXES_PER_PAGE of app.config: the most text regions detected on
\* a PDF page for which recognition is still run
OcrMaxBboxesPerPage == 3

\* the most recognized lines of a PDF for which the result is still used
OcrMaxRecognizedLines == 500

\* a page of the PDF printed of a web page: the text regions detection
\* finds on it, and the lines and the words recognition reads from it
PdfPage(regions, lines, words) ==
    [regions |-> regions, lines |-> lines, words |-> words]

TwoPhotos ==
    <<[width |-> 800, height |-> 600], [width |-> 800, height |-> 600]>>

\* the kinds of content the pages of the model's sites have
SiteContents == 1..NumSiteContents

\* what is found behind a content: the DOM text, which of its sentences
\* are in a language other than English, the images, and the PDF printed
\* of the page.
\*   1: English text without images
\*   2: a scan: no text, two photos, a PDF of one page read cleanly
\*   3: English text with one sentence in another language and two photos
\*   4: a scan whose PDF has a page with too many text regions and two
\*      pages that together give too many lines
\*   other: text in another language, without images
SiteContent(h) ==
    CASE h = 1 -> [dom_text |-> TextOf(<<120, 45>>), foreign |-> {},
                   images |-> <<>>, pdf_pages |-> <<PdfPage(2, 20, 165)>>]
      [] h = 2 -> [dom_text |-> <<>>, foreign |-> {}, images |-> TwoPhotos,
                   pdf_pages |-> <<PdfPage(2, 20, 120)>>]
      [] h = 3 -> [dom_text |-> TextOf(<<120, 45>>), foreign |-> {2},
                   images |-> TwoPhotos, pdf_pages |-> <<PdfPage(1, 5, 25)>>]
      [] h = 4 -> [dom_text |-> <<>>, foreign |-> {}, images |-> TwoPhotos,
                   pdf_pages |-> <<PdfPage(OcrMaxBboxesPerPage + 1, 0, 0),
                                   PdfPage(2, 300, 120),
                                   PdfPage(2, 300, 120)>>]
      [] OTHER -> [dom_text |-> TextOf(<<120>>), foreign |-> {1},
                   images |-> <<>>, pdf_pages |-> <<PdfPage(2, 20, 120)>>]

\* the URL of the i-th page of the site
SiteUrl(i) == [netloc |-> <<"h">>, path |-> <<"/", "p", ToString(i)>>]

\* a site: for each URL in crawl order the hash of its content and what
\* will go wrong with the page
Sites ==
    UNION {[1..n -> [hash : SiteContents, fails : PageFailures]] :
                n \in 0..MaxSitePages}

\* _crawl_single_page when the content hash was seen before
DuplicatePage(url, h, fails) ==
    [url |-> url, content_hash |-> h, duplicate |-> TRUE, fails |-> fails,
     dom_text |-> <<>>, scraped_images |-> <<>>, pdf |-> FALSE,
     foreign |-> {}, pdf_pages |-> <<>>,
     content |-> NoContent, fault |-> "none",
     ocr_action |-> "none", ocr_reason |-> NoDecision,
     parent_chunks |-> <<>>, child_chunks |-> <<>>]

\* _crawl_single_page otherwise
FetchedPage(url, h, fails) ==
    [url |-> url, content_hash |-> h, duplicate |-> FALSE, fails |-> fails,
     dom_text |-> SiteContent(h).dom_text,
     scraped_images |-> SiteContent(h).images, pdf |-> TRUE,
     foreign |-> SiteContent(h).foreign,
     pdf_pages |-> SiteContent(h).pdf_pages,
     content |-> NoContent, fault |-> "none",
     ocr_action |-> "none", ocr_reason |-> NoDecision,
     parent_chunks |-> <<>>, child_chunks |-> <<>>]

\* CrawlerStage.process: the loop over the URLs, from URL i on, with the
\* hashes the ContentFilter has seen
RECURSIVE CrawlFrom(_, _, _, _, _)
CrawlFrom(document, site, i, seen, config) ==
    IF i > Len(site) THEN document
    ELSE IF site[i].fails = "crawl"
    THEN CrawlFrom([document EXCEPT !.pages_failed = @ + 1],
                   site, i + 1, seen, config)
    ELSE IF config.skip_duplicates /\ site[i].hash \in seen
    THEN CrawlFrom([document EXCEPT !.pages =
                        Append(@, DuplicatePage(SiteUrl(i), site[i].hash,
                                                site[i].fails))],
                   site, i + 1, seen, config)
    ELSE CrawlFrom([document EXCEPT !.pages =
                        Append(@, FetchedPage(SiteUrl(i), site[i].hash,
                                              site[i].fails))],
                   site, i + 1,
                   IF config.skip_duplicates THEN seen \cup {site[i].hash}
                   ELSE seen,
                   config)

CrawlerStage_process(document, site, config) ==
    CrawlFrom(document, site, 1, {}, config)

\* len(text) of a text of five-letter words, each followed by a space or
\* by the full stop of its sentence, the sentences a space apart
CharCount(text) ==
    IF text = <<>> THEN 0 ELSE 6 * WordCount(text) + Len(text) - 1

\* PageContent.from_text
FromText(text, source) ==
    [present |-> TRUE, word_count |-> WordCount(text),
     char_count |-> CharCount(text), images |-> <<>>,
     text |-> text, source |-> source]

\* TextExtractorStage._extract_content (the texts of the model hold none
\* of the noise phrases _clean_dom_text removes)
ExtractContent(page) ==
    IF page.dom_text # <<>>
    THEN [FromText(page.dom_text, "DOM") EXCEPT !.images = page.scraped_images]
    ELSE FromText(<<>>, "DOM")

\* TextExtractorStage.process, one page: a failure is logged
ExtractPage(page) ==
    IF page.fails = "extract" THEN page
    ELSE [page EXCEPT !.content = ExtractContent(page)]

TextExtractorStage_process(document) ==
    [document EXCEPT !.pages = [i \in DOMAIN @ |-> ExtractPage(@[i])]]

\* OCRDecisionStage.process over the pages of the document
OCRDecisionStage_run(document, config) ==
    [document EXCEPT !.pages = [i \in DOMAIN @ |-> DecidePage(@[i], config)]]

\* the sentences of text a followed by those of text b, counted on
Following(a, b) ==
    a \o [i \in 1..Len(b) |-> [b[i] EXCEPT !.n = Len(a) + i]]

\* _run_full_page_ocr: the PDF pages recognition is run on, those whose
\* detected regions do not exceed the ceiling
RecognizedPages(pdf_pages) ==
    {i \in DOMAIN pdf_pages : pdf_pages[i].regions <= OcrMaxBboxesPerPage}

RECURSIVE SumLines(_, _)
SumLines(pdf_pages, indices) ==
    IF indices = {} THEN 0
    ELSE LET i == CHOOSE j \in indices : TRUE
         IN  pdf_pages[i].lines + SumLines(pdf_pages, indices \ {i})

\* total_rec_lines
TotalRecLines(pdf_pages) == SumLines(pdf_pages, RecognizedPages(pdf_pages))

\* "[SKIPPED_COMPLEX_PAGE: N regions detected]" and
\* "[SKIPPED_EXCESSIVE_RECOGNITION: N lines detected]": four words, no
\* sentence end
Placeholder(i) == [n |-> i, words |-> 4, terminated |-> FALSE]

\* the text recognition read from PDF page i, one piece per page (the
\* PDFs of the model have no page without text)
RecognizedText(pdf_pages, i) ==
    [n |-> i, words |-> pdf_pages[i].words, terminated |-> TRUE]

\* whether the recognition result is thrown away as noise
ExcessiveRecognition(pdf_pages) ==
    TotalRecLines(pdf_pages) > OcrMaxRecognizedLines

\* _run_full_page_ocr: the texts by page, joined in page order
RunFullPageOcr(pdf_pages) ==
    IF RecognizedPages(pdf_pages) = {}
    THEN [i \in DOMAIN pdf_pages |-> Placeholder(i)]
    ELSE IF ExcessiveRecognition(pdf_pages)
    THEN [i \in DOMAIN pdf_pages |-> Placeholder(i)]
    ELSE [i \in DOMAIN pdf_pages |->
            IF i \in RecognizedPages(pdf_pages)
            THEN RecognizedText(pdf_pages, i)
            ELSE Placeholder(i)]

\* _run_images_only_ocr
RunImagesOnlyOcr(pdf_pages) == RunFullPageOcr(pdf_pages)

\* the text _process_page gets for the page
OcrText(page) ==
    IF page.ocr_action = "FULL_PAGE_OCR"
    THEN RunFullPageOcr(page.pdf_pages)
    ELSE RunImagesOnlyOcr(page.pdf_pages)

\* OCRProcessorStage._process_page
OcrProcessPage(page) ==
    IF ~page.pdf THEN page
    ELSE IF OcrText(page) = <<>> THEN page
    ELSE IF page.content.present /\ page.content.text # <<>>
    THEN [page EXCEPT !.content =
              FromText(Following(page.content.text, OcrText(page)), "HYBRID")]
    ELSE [page EXCEPT !.content = FromText(OcrText(page), "OCR")]

\* OCRProcessorStage.process, one page: a failure is logged
OcrPage(page) ==
    IF page.ocr_action \notin {"FULL_PAGE_OCR", "OCR_IMAGES_ONLY"} THEN page
    ELSE IF page.fails = "ocr" THEN page
    ELSE OcrProcessPage(page)

OCRProcessorStage_process(document) ==
    [document EXCEPT !.pages = [i \in DOMAIN @ |-> OcrPage(@[i])]]

\* LanguageFilterStage.process: the sentences of the page's text that are
\* kept, those langdetect does not find to be in another language (the
\* sentences of the model's texts are long enough to be examined)
EnglishSentences(page) ==
    LET IsEnglish(s) == s.n \notin page.foreign
    IN  SelectSeq(page.content.text, IsEnglish)

\* the page after its text was rebuilt from the sentences kept (only
\* page.content.text is assigned, and only when something was removed)
FilterPage(page) ==
    IF EnglishSentences(page) # page.content.text
    THEN [page EXCEPT !.content.text = EnglishSentences(page)]
    ELSE page

\* whether the page is appended to pages_to_keep: a page without text is,
\* a page with text if an English sentence remains
KeptByLanguageFilter(page) ==
    \/ ~page.content.present
    \/ page.content.text = <<>>
    \/ EnglishSentences(page) # <<>>

LanguageFilterPage(page) ==
    IF ~page.content.present \/ page.content.text = <<>> THEN page
    ELSE FilterPage(page)

LanguageFilterStage_process(document) ==
    [document EXCEPT !.pages =
        LET kept == SelectSeq(@, KeptByLanguageFilter)
        IN  [i \in DOMAIN kept |-> LanguageFilterPage(kept[i])]]

\* ChunkerStage.process, one page: a failure is logged
ChunkOnePage(page, config) ==
    IF ~page.content.present \/ page.content.text = <<>> THEN page
    ELSE IF page.fails = "chunk" THEN page
    ELSE LET out == ChunkPage([url |-> page.url,
                               text |-> page.content.text,
                               source |-> page.content.source], config)
         IN  [page EXCEPT !.parent_chunks = out.parents,
                          !.child_chunks = out.children]

ChunkerStage_run(document, config) ==
    [document EXCEPT !.pages = [i \in DOMAIN @ |-> ChunkOnePage(@[i], config)]]

\* process() of the stage of the given name
StageProcess(stage, document, site, config) ==
    CASE stage = "crawler" -> CrawlerStage_process(document, site, config)
      [] stage = "text_extractor" -> TextExtractorStage_process(document)
      [] stage = "ocr_decision" -> OCRDecisionStage_run(document, config.ocr)
      [] stage = "ocr_processor" -> OCRProcessorStage_process(document)
      [] stage = "language_filter" -> LanguageFilterStage_process(document)
      [] stage = "chunker" -> ChunkerStage_run(document, config.chunker)

\* the configs of the model: the default thresholds, duplicates skipped,
\* intermediate snapshots written or not
PipelineConfigs ==
    {[save_intermediate |-> si, skip_duplicates |-> TRUE,
      ocr |-> DefaultOcrConfig, chunker |-> DefaultChunkConfig] :
        si \in BOOLEAN}

\* the stage run() is in
CurrentStage == plStages[plIdx]

Invoked(stage, hook, outcome) ==
    [stage |-> stage, hook |-> hook, outcome |-> outcome]

\* a hook raised and the failure is logged, the run going on
RaiseFrom_Swallowed(stage, hook) ==
    [pc |-> "after_stage", error |-> "none"]

\* a hook raised: PipelineStage.run logs and re-raises, and so does
\* WebScrapingPipeline.run
RaiseFrom(stage, hook) ==
    [pc |-> "raised", error |-> [stage |-> stage, hook |-> hook]]

\* WebScrapingPipeline.create_default
WebScrapingPipeline_create_default ==
    /\ plPc = "new"
    /\ plStages' =
        AddStage(AddStage(AddStage(AddStage(AddStage(AddStage(plStages,
            "crawler"), "text_extractor"), "ocr_decision"),
            "ocr_processor"), "language_filter"), "chunker")
    /\ plPc' = "built"
    /\ UNCHANGED <<plConfig, plIdx, plDoc, plFiles, plError, plLog>>

\* WebScrapingPipeline.run up to the loop over the stages
WebScrapingPipeline_run_begin ==
    /\ plPc = "built"
    /\ plDoc' = NewDocument
    /\ plIdx' = 1
    /\ plPc' = IF plStages = <<>> THEN "save_results" ELSE "setup"
    /\ UNCHANGED <<plConfig, plStages, plFiles, plError, plLog>>

\* PipelineStage.run: await self.setup()
PipelineStage_setup ==
    /\ plPc = "setup"
    /\ \E outcome \in HookOutcomes :
        /\ plLog' = Append(plLog, Invoked(CurrentStage, "setup", outcome))
        /\ IF outcome = "raise"
           THEN /\ plPc' = RaiseFrom(CurrentStage, "setup").pc
                /\ plError' = RaiseFrom(CurrentStage, "setup").error
           ELSE /\ plPc' = "process"
                /\ UNCHANGED plError
    /\ UNCHANGED <<plConfig, plStages, plIdx, plDoc, plFiles>>

\* PipelineStage.run: result = await self.process(document)
PipelineStage_process ==
    /\ plPc = "process"
    /\ \E outcome \in HookOutcomes,
          site \in (IF CurrentStage = "crawler" THEN Sites ELSE {<<>>}) :
        /\ plLog' = Append(plLog, Invoked(CurrentStage, "process", outcome))
        /\ IF outcome = "raise"
           THEN /\ plPc' = RaiseFrom(CurrentStage, "process").pc
                /\ plError' = RaiseFrom(CurrentStage, "process").error
                /\ UNCHANGED plDoc
           ELSE /\ plPc' = "teardown"
                /\ plDoc' = StageProcess(CurrentStage, plDoc, site, plConfig)
                /\ UNCHANGED plError
    /\ UNCHANGED <<plConfig, plStages, plIdx, plFiles>>

\* PipelineStage.run: await self.teardown()
PipelineStage_teardown ==
    /\ plPc = "teardown"
    /\ \E outcome \in HookOutcomes :
        /\ plLog' = Append(plLog, Invoked(CurrentStage, "teardown", outcome))
        /\ IF outcome = "raise"
           THEN /\ plPc' = RaiseFrom(CurrentStage, "teardown").pc
                /\ plError' = RaiseFrom(CurrentStage, "teardown").error
           ELSE /\ plPc' = "after_stage"
                /\ UNCHANGED plError
    /\ UNCHANGED <<plConfig, plStages, plIdx, plDoc, plFiles>>

\* WebScrapingPipeline.run after stage.run returned: the intermediate
\* snapshot if configured, then the next stage
WebScrapingPipeline_after_stage ==
    /\ plPc = "after_stage"
    /\ plFiles' = IF plConfig.save_intermediate
                  THEN Append(plFiles, [file |-> "intermediate",
                                        stage |-> CurrentStage])
                  ELSE plFiles
    /\ plIdx' = plIdx + 1
    /\ plPc' = IF plIdx = Len(plStages) THEN "save_results" ELSE "setup"
    /\ UNCHANGED <<plConfig, plStages, plDoc, plError, plLog>>

\* WebScrapingPipeline.run after the loop: _save_results and return
WebScrapingPipeline_save_results ==
    /\ plPc = "save_results"
    /\ plFiles' = Append(plFiles, [file |-> "all_chunks", stage |-> "none"])
    /\ plPc' = "returned"
    /\ UNCHANGED <<plConfig, plStages, plIdx, plDoc, plError, plLog>>

PLObserveInit ==
    /\ plStages = <<>>
    /\ plPc = "new"
    /\ plIdx = 0
    /\ plDoc = NewDocument
    /\ plFiles = <<>>
    /\ plError = "none"
    /\ plLog = <<>>

\* WebScrapingPipeline.__init__
InitPL ==
    /\ plConfig \in PipelineConfigs
    /\ PLObserveInit

IdlePL ==
    /\ plConfig = [save_intermediate |-> FALSE, skip_duplicates |-> TRUE,
                   ocr |-> DefaultOcrConfig, chunker |-> DefaultChunkConfig]
    /\ PLObserveInit

\* ----------------------------------------------- WebScrapingPipeline claims

HasText(page) == page.content.present /\ page.content.text # <<>>

\* C11: a page whose content hash was already seen in the run is kept in
\* the document with its hash set and is never enriched by the later
\* stages: when the default pipeline has run, the duplicate page has no
\* extracted text, no OCR action and no OCR reason (so it is not flagged
\* full_page OCR) and no chunks.
C11_DuplicateNeverEnriched ==
    plPc = "returned" =>
        \A i \in DOMAIN plDoc.pages :
            LET page == plDoc.pages[i]
            IN  page.duplicate =>
                    /\ page.content_hash \in SiteContents
                    /\ ~HasText(page)
                    /\ page.ocr_action = "none"
                    /\ page.ocr_reason = NoDecision
                    /\ page.parent_chunks = <<>>
                    /\ page.child_chunks = <<>>

IsProcess(e) == e.hook = "process"
ProcessLog == SelectSeq(plLog, IsProcess)
FinalArtifacts ==
    {k \in DOMAIN plFiles : plFiles[k].file = "all_chunks"}

\* C12: run() applies the registered stages in registration order, each
\* exactly once; if a stage raises, no later stage runs (the raising hook
\* is the last one invoked), no final result artifact is written and the
\* exception reaches the caller of run().
C12_StagesInOrderAndShortCircuit ==
    /\ Len(ProcessLog) <= Len(plStages)
    /\ \A k \in DOMAIN ProcessLog : ProcessLog[k].stage = plStages[k]
    /\ plPc = "returned" =>
        /\ Len(ProcessLog) = Len(plStages)
        /\ Cardinality(FinalArtifacts) = 1
        /\ plError = "none"
    /\ \A k \in DOMAIN plLog :
        plLog[k].outcome = "raise" =>
            /\ k = Len(plLog)
            /\ plPc = "raised"
            /\ plError = [stage |-> plLog[k].stage, hook |-> plLog[k].hook]
            /\ FinalArtifacts = {}

\* the OCR stage raised after two stages had run: the run ended there
C12_Witness ==
    /\ plPc = "raised"
    /\ plError = [stage |-> "ocr_processor", hook |-> "process"]
    /\ Len(ProcessLog) = 4
    /\ plDoc.pages # <<>>

HookCount(stage, hook) ==
    Cardinality({k \in DOMAIN plLog :
                    plLog[k].stage = stage /\ plLog[k].hook = hook})

\* the stage executions that are over: those of the stages before the
\* current one, and that of the current one once its run() has ended
StageOver(k) ==
    \/ k < plIdx
    \/ k = plIdx /\ plPc \in {"after_stage", "raised"}

\* C13: for every stage execution of a run, setup is invoked exactly once
\* before process and teardown exactly once after it, also when process
\* raises.
C13_SetupAndTeardownOnce ==
    \A k \in DOMAIN plStages :
        (StageOver(k) /\ HookCount(plStages[k], "process") > 0) =>
            /\ HookCount(plStages[k], "setup") = 1
            /\ HookCount(plStages[k], "process") = 1
            /\ HookCount(plStages[k], "teardown") = 1

\* whether the stage's handling of the page raises
PageFails(stage, page) ==
    CASE stage = "text_extractor" -> page.fails = "extract"
      [] stage = "ocr_processor" ->
            /\ page.fails = "ocr"
            /\ page.ocr_action \in {"FULL_PAGE_OCR", "OCR_IMAGES_ONLY"}
      [] stage = "chunker" -> page.fails = "chunk" /\ HasText(page)
      [] OTHER -> FALSE

FailingPages(stage, document) ==
    {i \in DOMAIN document.pages : PageFails(stage, document.pages[i])}

\* C14: a failure on a single page in the extract, OCR or chunk stage is
\* page-local: the stage goes on to the other pages and returns, and the
\* failure is counted, the document's failed count growing by the number
\* of pages the stage failed on.
C14_PageFailureCounted ==
    [][(/\ plPc = "process"
        /\ CurrentStage \in {"text_extractor", "ocr_processor", "chunker"}
        /\ FailingPages(CurrentStage, plDoc) # {}
        /\ plPc' = "teardown")
       => plDoc'.pages_failed =
            plDoc.pages_failed
                + Cardinality(FailingPages(CurrentStage, plDoc))]_vars

Urls(document) == {document.pages[i].url : i \in DOMAIN document.pages}

\* C21: no stage of a run removes a page from the document: over every
\* step of a run the list of pages does not get shorter and every page
\* that was in the document is still in it.
C21_NoPageRemoved ==
    [][/\ Len(plDoc'.pages) >= Len(plDoc.pages)
       /\ Urls(plDoc) \subseteq Urls(plDoc')]_vars

\* C22: after every stage, for every page that has content, word_count
\* and char_count are the counts of the words and of the characters of
\* the current content.text.
C22_CountsMatchText ==
    \A i \in DOMAIN plDoc.pages :
        LET content == plDoc.pages[i].content
        IN  content.present =>
                /\ content.word_count = WordCount(content.text)
                /\ content.char_count = CharCount(content.text)

\* C24: a stage working on the pages of a document is idempotent: once
\* its process has returned, applying process again to the document it
\* returned gives the same document.
C24_StageIdempotent ==
    (/\ plPc \in {"teardown", "after_stage"}
     /\ CurrentStage # "crawler")
        => StageProcess(CurrentStage, plDoc, <<>>, plConfig) = plDoc

\* whether the OCR stage runs OCR on the page and throws the result away
\* as noise
OcrDiscarded(page) ==
    /\ page.ocr_action \in {"FULL_PAGE_OCR", "OCR_IMAGES_ONLY"}
    /\ page.fails # "ocr"
    /\ page.pdf
    /\ RecognizedPages(page.pdf_pages) # {}
    /\ ExcessiveRecognition(page.pdf_pages)

\* C30: when the lines recognized in a page's PDF exceed the line ceiling
\* the OCR result is discarded: the OCR stage leaves the content of the
\* page as it was before.
C30_DiscardedOcrLeavesContent ==
    [][(/\ plPc = "process"
        /\ CurrentStage = "ocr_processor"
        /\ plPc' = "teardown")
       => \A i \in DOMAIN plDoc.pages :
            OcrDiscarded(plDoc.pages[i]) =>
                plDoc'.pages[i].content = plDoc.pages[i].content]_vars

\* ------------------------------------------------------- OrchestratorConfig

\* __post_init__: the safety ceilings of the OCR pool and the OCR queue
OcrWorkersCeiling == 2
OcrQueueCeiling == 20

\* WorkerConfig, QueueConfig: the fields with their defaults
WorkerConfig(ocr_workers) ==
    [crawler_workers |-> 5, processor_workers |-> 6, storage_workers |-> 3,
     pdf_workers |-> 2, ocr_workers |-> ocr_workers]

QueueConfig(ocr_queue_size) ==
    [crawl_queue_size |-> 20, processing_queue_size |-> 100,
     pdf_queue_size |-> 25, ocr_queue_size |-> ocr_queue_size,
     storage_queue_size |-> 200]

\* WorkerConfig(...), QueueConfig(...) with every field given
Pools(crawler, processor, pdf, ocr, storage) ==
    [crawler_workers |-> crawler, processor_workers |-> processor,
     storage_workers |-> storage, pdf_workers |-> pdf, ocr_workers |-> ocr]

Queues(crawl, processing, pdf, ocr, storage) ==
    [crawl_queue_size |-> crawl, processing_queue_size |-> processing,
     pdf_queue_size |-> pdf, ocr_queue_size |-> ocr,
     storage_queue_size |-> storage]

\* QueueConfig.total_queue_capacity
TotalQueueCapacity(queues) ==
    queues.crawl_queue_size + queues.processing_queue_size
        + queues.ocr_queue_size + queues.storage_queue_size

\* the arguments of a constructor call
ConfigArgs(workers, queues, recovery, monitoring, shutdown_timeout) ==
    [given |-> TRUE, workers |-> workers, queues |-> queues,
     enable_recovery |-> recovery, enable_monitoring |-> monitoring,
     shutdown_timeout_seconds |-> shutdown_timeout]

\* the arguments get_default_config, get_light_config and
\* get_aggressive_config give the constructor
FactoryArgs(factory) ==
    CASE factory = "default" ->
            ConfigArgs(Pools(3, 4, 1, 0, 2), Queues(10, 50, 10, 10, 100),
                       TRUE, TRUE, 30)
      [] factory = "light" ->
            ConfigArgs(Pools(2, 2, 1, 0, 1), Queues(5, 20, 5, 5, 30),
                       TRUE, TRUE, 20)
      [] factory = "aggressive" ->
            ConfigArgs(Pools(5, 6, 2, 1, 3), Queues(20, 100, 15, 15, 200),
                       TRUE, TRUE, 45)

Factories == {"default", "light", "aggressive"}

\* the arguments the model gives the constructor: pool and queue sizes on
\* either side of the ceilings
OcrWorkerArgs == 0..(OcrWorkersCeiling + MaxMargin)
OcrQueueArgs == (OcrQueueCeiling - MaxMargin)..(OcrQueueCeiling + MaxMargin)

\* __post_init__: the error it raises, "none" if it returns
PostInitError_WorkersOnly(workers, queues) ==
    IF workers.ocr_workers > OcrWorkersCeiling
    THEN "ValueError: ocr_workers should not exceed 2"
    ELSE "none"

PostInitError(workers, queues) ==
    IF workers.ocr_workers > OcrWorkersCeiling
    THEN "ValueError: ocr_workers should not exceed 2"
    ELSE IF queues.ocr_queue_size > OcrQueueCeiling
    THEN "ValueError: ocr_queue_size should not exceed 20"
    ELSE "none"

NoConfig == [present |-> FALSE]

\* OrchestratorConfig(...): the dataclass __init__ sets the fields and
\* calls __post_init__; when that raises the caller gets no object
OrchestratorConfig_new(args) ==
    /\ orchArgs' = args
    /\ orchError' = PostInitError(args.workers, args.queues)
    /\ orchConfig' =
        IF PostInitError(args.workers, args.queues) = "none"
        THEN [present |-> TRUE, workers |-> args.workers,
              queues |-> args.queues,
              enable_recovery |-> args.enable_recovery,
              enable_monitoring |-> args.enable_monitoring,
              shutdown_timeout_seconds |-> args.shutdown_timeout_seconds]
        ELSE NoConfig
    /\ UNCHANGED <<orchStarted, runningFor, wdFlip, sdVars>>

\* a constructor call with sizes chosen by the caller
OrchestratorConfig_init ==
    \E w \in OcrWorkerArgs, q \in OcrQueueArgs, r \in BOOLEAN, m \in BOOLEAN :
        OrchestratorConfig_new(
            ConfigArgs(WorkerConfig(w), QueueConfig(q), r, m, 30))

\* get_default_config, get_light_config, get_aggressive_config
OrchestratorConfig_factory ==
    \E f \in Factories :
        OrchestratorConfig_new(FactoryArgs(f))

\* the orchestrator is started with the config object the caller holds
Orchestrator_start ==
    /\ orchConfig.present
    /\ orchStarted' = orchConfig
    /\ UNCHANGED <<orchConfig, orchError, orchArgs, runningFor, wdFlip, sdVars>>

NoOrchestrator ==
    /\ orchConfig = NoConfig
    /\ orchError = "none"
    /\ orchArgs = [given |-> FALSE]
    /\ orchStarted = NoConfig

NoWatchdog ==
    /\ runningFor = [t \in TaskIds |-> 0]
    /\ wdFlip = FALSE

NoShutdown ==
    /\ shutdownSignal = FALSE
    /\ sinceShutdown = 0
    /\ workerPc = [w \in Workers |-> "waiting"]
    /\ popWait = [w \in Workers |-> 0]

InitOR == NoOrchestrator /\ NoWatchdog /\ NoShutdown

IdleOR == InitOR

\* ------------------------------------------------ OrchestratorConfig claims

\* C34: total_queue_capacity of every configuration is the sum of the
\* sizes of its five queues: crawl, processing, pdf, ocr and storage.
C34_TotalIsSumOfAllQueues ==
    orchConfig.present =>
        TotalQueueCapacity(orchConfig.queues) =
            orchConfig.queues.crawl_queue_size
                + orchConfig.queues.processing_queue_size
                + orchConfig.queues.pdf_queue_size
                + orchConfig.queues.ocr_queue_size
                + orchConfig.queues.storage_queue_size

OverCeiling(workers, queues) ==
    \/ workers.ocr_workers > OcrWorkersCeiling
    \/ queues.ocr_queue_size > OcrQueueCeiling

\* C25: constructing an OrchestratorConfig whose OCR pool size or OCR
\* queue size exceeds its ceiling raises an error and yields no config
\* object, and an orchestrator is never started with such values.
C25_UnsafeConfigRejected ==
    /\ (orchArgs.given /\ OverCeiling(orchArgs.workers, orchArgs.queues)) =>
            /\ orchError # "none"
            /\ ~orchConfig.present
    /\ orchStarted.present =>
            ~OverCeiling(orchStarted.workers, orchStarted.queues)

\* a construction with a pool within its ceiling and a queue one over
C25_Witness ==
    /\ orchArgs.given
    /\ orchArgs.workers.ocr_workers <= OcrWorkersCeiling
    /\ orchArgs.queues.ocr_queue_size = OcrQueueCeiling + 1
    /\ orchError # "none"
    /\ ~orchConfig.present
    /\ orchStarted.present

\* ----------------------------------------------------- bounded crawl queue

\* the tasks of the scenario: crawl targets submitted to a crawl queue of
\* capacity QueueCap served by workers whose crawls succeed
IncomingIds == 1..NumIncoming

InitIncoming ==
    /\ tasks = [t \in IncomingIds |-> NewTask("CrawlTask", 0)]
    /\ crawl_queue = <<>>
    /\ dead_letter = <<>>
    /\ holding = [w \in Workers |-> 0]
    /\ execCount = [t \in IncomingIds |-> 0]
    /\ wkLast = [op |-> "init", task |-> 0, retry |-> 0, e |-> "none"]

AllProcessed == \A t \in IncomingIds : tasks[t].status = "completed"

\* C28: with a bounded crawl queue, more incoming tasks than its capacity
\* and workers that always complete, the queue never holds more tasks
\* than its capacity, no task is lost or started twice, and in the end
\* every task has been processed, exactly once.
C28_AllProcessedOnceWithinCapacity ==
    /\ [](/\ Len(crawl_queue) <= QueueCap
          /\ \A t \in IncomingIds :
                /\ execCount[t] <= 1
                /\ tasks[t].status # "new" => TaskPlaces(t) = 1
                /\ tasks[t].status = "completed" => execCount[t] = 1)
    /\ <>[]AllProcessed

\* the queue is full, every worker is busy and tasks are still to come:
\* the producer waits
C28_Witness ==
    /\ DOMAIN tasks = IncomingIds
    /\ Len(crawl_queue) = QueueCap
    /\ \A w \in Workers : holding[w] # 0
    /\ \E t \in IncomingIds : tasks[t].status = "new"

\* -------------------------------------------------------- recovery watchdog

\* RecoveryConfig: the retries the watchdog allows a task and the timeouts
\* by worker kind, in seconds
MaxTaskRetries == 2
CrawlerTimeout == 300
ProcessorTimeout == 300
PdfTimeout == 240
OcrTimeout == 300
StorageTimeout == 120

\* the kind of worker that runs a task
WorkerKindOf(task) ==
    IF task.kind = "CrawlTask" THEN "crawler" ELSE "processor"

\* the timeout RecoveryConfig gives a worker kind
TimeoutOf_Shortest(kind) == StorageTimeout

TimeoutOf(kind) ==
    CASE kind = "crawler" -> CrawlerTimeout
      [] kind = "processor" -> ProcessorTimeout
      [] kind = "pdf" -> PdfTimeout
      [] kind = "ocr" -> OcrTimeout
      [] kind = "storage" -> StorageTimeout

\* the clock of the model goes in steps of half the crawler timeout, and
\* a running time is followed up to one step beyond the timeout
ClockStep == CrawlerTimeout \div 2
LongestRun == CrawlerTimeout + ClockStep

\* time passes while tasks are running
Watchdog_tick ==
    /\ \E t \in DOMAIN tasks :
        tasks[t].status = "running" /\ runningFor[t] < LongestRun
    /\ runningFor' =
        [t \in TaskIds |->
            IF t \in DOMAIN tasks /\ tasks[t].status = "running"
            THEN Min(runningFor[t] + ClockStep, LongestRun)
            ELSE runningFor[t]]
    /\ UNCHANGED <<orchConfig, orchError, orchArgs, orchStarted, wdFlip, sdVars>>

\* the tasks the watchdog presumes stuck: running longer than the timeout
\* of their kind
Overdue(t) ==
    /\ t \in DOMAIN tasks
    /\ tasks[t].status = "running"
    /\ runningFor[t] > TimeoutOf(WorkerKindOf(tasks[t]))

ToRequeue ==
    {t \in DOMAIN tasks : Overdue(t) /\ tasks[t].retry_count < MaxTaskRetries}
ToDeadLetter ==
    {t \in DOMAIN tasks : Overdue(t) /\ tasks[t].retry_count >= MaxTaskRetries}

\* the tasks of a set in the order of their ids
RECURSIVE InOrder(_)
InOrder(S) ==
    IF S = {} THEN <<>>
    ELSE LET t == CHOOSE x \in S : \A y \in S : x <= y
         IN  <<t>> \o InOrder(S \ {t})

\* one check of the watchdog: every task presumed stuck is requeued as a
\* retry while it has retries left and dead-lettered otherwise. The
\* watchdog deals with the task and the queues only; the worker that
\* started the task is not asked and goes on if it is alive.
RecoveryWatchdog_check ==
    /\ Len(crawl_queue) + Cardinality(ToRequeue) <= QueueCap
    /\ tasks' =
        [t \in DOMAIN tasks |->
            IF t \in ToRequeue
            THEN Requeued(MarkFailed(tasks[t], "task timed out"))
            ELSE IF t \in ToDeadLetter
            THEN DeadLettered(tasks[t], "task timed out")
            ELSE tasks[t]]
    /\ crawl_queue' = crawl_queue \o InOrder(ToRequeue)
    /\ dead_letter' =
        dead_letter \o [i \in 1..Cardinality(ToDeadLetter) |->
                            [task |-> InOrder(ToDeadLetter)[i],
                             reason |-> "task timed out"]]
    /\ runningFor' =
        [t \in TaskIds |-> IF Overdue(t) THEN 0 ELSE runningFor[t]]
    /\ wdFlip' = ~wdFlip
    /\ wkLast' = [op |-> "watchdog", task |-> 0, retry |-> 0, e |-> "none"]
    /\ UNCHANGED <<holding, execCount>>
    /\ UNCHANGED <<orchConfig, orchError, orchArgs, orchStarted, sdVars>>

\* the workers watched: mark_started notes the start time, and a task
\* that is no longer running has no running time
Watched_take(w) ==
    /\ CrawlerWorker_take(w)
    /\ runningFor' = [t \in TaskIds |->
                        IF holding'[w] = t /\ tasks'[t].status = "running"
                        THEN 0 ELSE runningFor[t]]
    /\ UNCHANGED <<orchConfig, orchError, orchArgs, orchStarted, wdFlip, sdVars>>

Watched_complete(w) ==
    /\ CrawlerWorker_complete(w)
    /\ runningFor' = [runningFor EXCEPT ![holding[w]] = 0]
    /\ UNCHANGED <<orchConfig, orchError, orchArgs, orchStarted, wdFlip, sdVars>>

\* crawl targets submitted to workers under the watchdog
WatchedIds == 1..NumWatched
InitWatched ==
    /\ tasks = [t \in WatchedIds |-> NewTask("CrawlTask", MaxRetries)]
    /\ crawl_queue = <<>>
    /\ dead_letter = <<>>
    /\ holding = [w \in Workers |-> 0]
    /\ execCount = [t \in TaskIds |-> 0]
    /\ wkLast = [op |-> "init", task |-> 0, retry |-> 0, e |-> "none"]

\* ------------------------------------------------- recovery watchdog claims

\* C26: at every instant each running task is held by exactly one worker
\* and no task is held by two workers, also after the watchdog requeued
\* a task whose worker is still executing it.
C26_OneWorkerPerRunningTask ==
    \A t \in DOMAIN tasks :
        /\ HolderCount(t) <= 1
        /\ tasks[t].status = "running" => HolderCount(t) = 1

\* the timeout of a task by its type, as RecoveryConfig sets it
TimeoutByTask(task) ==
    IF task.kind = "CrawlTask" THEN CrawlerTimeout ELSE ProcessorTimeout

TimedOut(t) ==
    tasks[t].status = "running" /\ runningFor[t] > TimeoutByTask(tasks[t])

\* C27: at each watchdog check a task running longer than the timeout of
\* its kind is requeued with retry_count increased by one when retries
\* remain and dead-lettered when retry_count has reached
\* max_task_retries; any other task is left as it is, neither requeued
\* nor dead-lettered.
C27_WatchdogVerdicts ==
    [][wdFlip' # wdFlip =>
        \A t \in DOMAIN tasks :
            IF TimedOut(t) /\ tasks[t].retry_count < MaxTaskRetries
            THEN /\ tasks'[t].status = "queued"
                 /\ tasks'[t].retry_count = tasks[t].retry_count + 1
                 /\ QueueCount(t)' = QueueCount(t) + 1
                 /\ DeadLetterCount(t)' = DeadLetterCount(t)
            ELSE IF TimedOut(t)
            THEN /\ tasks'[t].status = "dead_letter"
                 /\ tasks'[t].retry_count = tasks[t].retry_count
                 /\ QueueCount(t)' = QueueCount(t)
                 /\ DeadLetterCount(t)' = DeadLetterCount(t) + 1
            ELSE /\ tasks'[t] = tasks[t]
                 /\ QueueCount(t)' = QueueCount(t)
                 /\ DeadLetterCount(t)' = DeadLetterCount(t)]_vars

\* a check has just dead-lettered a task that had used its retries
C27_Witness ==
    /\ wkLast.op = "watchdog"
    /\ \E t \in DOMAIN tasks :
        /\ tasks[t].status = "dead_letter"
        /\ tasks[t].retry_count = MaxTaskRetries
        /\ tasks[t].failure_reason = "task timed out"
        /\ DeadLetterCount(t) = 1

\* ------------------------------------------------------------------ shutdown

\* seconds a worker waits in get_crawl_task, and seconds the orchestrator
\* waits for its workers at shutdown
PopTimeout == 1
ShutdownTimeout == 30

cfgAndWatchdog ==
    <<orchConfig, orchError, orchArgs, orchStarted, runningFor, wdFlip>>

Waiting(w) == workerPc[w] = "waiting"
Gone(w) == workerPc[w] \in {"exited", "abandoned"}
AllGone == \A w \in Workers : Gone(w)

\* the seconds get_crawl_task(timeout=1.0) still waits for a task
PopRemaining_Late(w) == PopTimeout + PopTimeout - popWait[w]

PopRemaining(w) == PopTimeout - popWait[w]

\* the pop has waited its timeout and returns None
PopExpired(w) == PopRemaining(w) <= 0

\* where a worker goes when its loop comes round: out once the signal
\* was given, to the next pop otherwise
LoopRound(w) ==
    [workerPc EXCEPT ![w] = IF shutdownSignal THEN "exited" ELSE "waiting"]

\* the pop of a waiting worker hands it the next task
Worker_take(w) ==
    /\ Waiting(w)
    /\ CrawlerWorker_take(w)
    /\ workerPc' =
        [workerPc EXCEPT ![w] = IF holding'[w] # 0 THEN "executing"
                                ELSE LoopRound(w)[w]]
    /\ popWait' = [popWait EXCEPT ![w] = 0]
    /\ UNCHANGED <<shutdownSignal, sinceShutdown, cfgAndWatchdog>>

\* the pop of a waiting worker times out
Worker_pop_timeout(w) ==
    /\ Waiting(w)
    /\ PopExpired(w)
    /\ workerPc' = LoopRound(w)
    /\ popWait' = [popWait EXCEPT ![w] = 0]
    /\ UNCHANGED <<shutdownSignal, sinceShutdown, cfgAndWatchdog, wkVars>>

\* process_task returns True
Worker_complete(w) ==
    /\ workerPc[w] = "executing"
    /\ CrawlerWorker_complete(w)
    /\ workerPc' = LoopRound(w)
    /\ UNCHANGED <<shutdownSignal, sinceShutdown, popWait, cfgAndWatchdog>>

\* process_task returns False after its except branch
Worker_fail(w, e) ==
    /\ workerPc[w] = "executing"
    /\ CrawlerWorker_fail(w, e)
    /\ workerPc' = LoopRound(w)
    /\ UNCHANGED <<shutdownSignal, sinceShutdown, popWait, cfgAndWatchdog>>

\* tasks are submitted until the shutdown signal
Shutdown_submit(t) ==
    /\ ~shutdownSignal
    /\ SubmitTask(t)
    /\ UNCHANGED <<orVars, svVars>>

\* the shutdown signal
Orchestrator_shutdown ==
    /\ ~shutdownSignal
    /\ shutdownSignal' = TRUE
    /\ UNCHANGED <<sinceShutdown, workerPc, popWait, cfgAndWatchdog, wkVars>>

\* the seconds until the next timeout falls due: the pop of a waiting
\* worker, or the wait of the orchestrator for its workers
Deadlines ==
    {PopRemaining(w) : w \in {x \in Workers : Waiting(x)}}
        \cup (IF shutdownSignal /\ sinceShutdown < ShutdownTimeout
              THEN {ShutdownTimeout - sinceShutdown} ELSE {})
NextDeadline == CHOOSE d \in Deadlines : \A x \in Deadlines : d <= x

\* time passes up to the next timeout; a timeout that is due is served
\* before time goes on, and after the shutdown timeout time is followed
\* for one more second
Shutdown_tick ==
    /\ \A w \in Workers : Waiting(w) => ~PopExpired(w)
    /\ IF shutdownSignal /\ sinceShutdown >= ShutdownTimeout
       THEN /\ AllGone
            /\ sinceShutdown = ShutdownTimeout
            /\ sinceShutdown' = sinceShutdown + 1
            /\ UNCHANGED popWait
       ELSE /\ Deadlines # {}
            /\ popWait' = [w \in Workers |->
                            IF Waiting(w) THEN popWait[w] + NextDeadline
                            ELSE popWait[w]]
            /\ sinceShutdown' =
                IF shutdownSignal THEN sinceShutdown + NextDeadline
                ELSE sinceShutdown
    /\ UNCHANGED <<shutdownSignal, workerPc, cfgAndWatchdog, wkVars>>

\* the shutdown timeout has passed: the workers that have not exited are
\* abandoned
Orchestrator_abandon ==
    /\ shutdownSignal
    /\ sinceShutdown >= ShutdownTimeout
    /\ ~AllGone
    /\ workerPc' = [w \in Workers |->
                        IF Gone(w) THEN workerPc[w] ELSE "abandoned"]
    /\ UNCHANGED <<shutdownSignal, sinceShutdown, popWait, cfgAndWatchdog, wkVars>>

\* ----------------------------------------------------------- shutdown claims

Docs == 1..NumDocs
DocWorkers == 1..NumDocWorkers
\* max_iterations = None
NoLimit == 0

\* DocumentStore.update_status: the status of the document is set,
\* whatever it was
UpdateStatus(status, file_id, new) == [status EXCEPT ![file_id] = new]

\* DocumentStore.mark_processing / mark_vectorized / mark_failed
MarkProcessing(status, file_id) == UpdateStatus(status, file_id, "processing")
MarkVectorized(status, file_id) == UpdateStatus(status, file_id, "vectorized")
MarkFailedDoc(status, file_id) == UpdateStatus(status, file_id, "failed")

\* the documents of a set in the order of their creation
RECURSIVE ByCreation(_)
ByCreation(S) ==
    IF S = {} THEN <<>>
    ELSE LET d == CHOOSE x \in S : \A y \in S : x <= y
         IN  <<d>> \o ByCreation(S \ {d})

FirstOf(seq, n) == SubSeq(seq, 1, Min(n, Len(seq)))

\* DocumentStore.get_pending_documents: the oldest pending documents, at
\* most limit of them
GetPendingDocuments(limit) ==
    FirstOf(ByCreation({d \in Docs : dwStatus[d] = "pending"}), limit)

\* DocumentStore.get_by_session, and the pending ones of them
GetBySession == ByCreation(Docs)
PendingOf(documents) == SelectSeq(documents, LAMBDA d : dwStatus[d] = "pending")

\* run(max_iterations): _running is set and the loop is entered
DocumentWorker_run(w, batch_size, max_iterations) ==
    /\ dwPc[w] = "idle"
    /\ dwPc' = [dwPc EXCEPT ![w] = "run_loop"]
    /\ dwMode' = [dwMode EXCEPT ![w] = "run"]
    /\ dwLimit' = [dwLimit EXCEPT ![w] = batch_size]
    /\ dwRunning' = [dwRunning EXCEPT ![w] = TRUE]
    /\ dwIter' = [dwIter EXCEPT ![w] = 0]
    /\ dwMax' = [dwMax EXCEPT ![w] = max_iterations]
    /\ dwPolls' = [dwPolls EXCEPT ![w] = 0]
    /\ UNCHANGED <<dwStoreVars, dwBatch, dwCur, dwProcessed, dwPicked, dwLeft>>

\* stop()
DocumentWorker_stop(w) ==
    /\ dwMode[w] = "run"
    /\ dwRunning[w]
    /\ dwRunning' = [dwRunning EXCEPT ![w] = FALSE]
    /\ UNCHANGED <<dwStoreVars, dwPc, dwMode, dwBatch, dwCur, dwLimit,
                   dwProcessed, dwIter, dwMax, dwPolls, dwPicked, dwLeft>>

\* whether the loop of run() goes round once more
RunGoesOn(w) ==
    /\ dwRunning[w]
    /\ ~(dwMax[w] # NoLimit /\ dwIter[w] >= dwMax[w])

\* the head of the loop of run(): it ends, or polls with process_pending
DocumentWorker_run_loop(w) ==
    /\ dwPc[w] = "run_loop"
    /\ IF RunGoesOn(w)
       THEN /\ dwPolls[w] < MaxPolls
            /\ dwPc' = [dwPc EXCEPT ![w] = "fetch"]
            /\ dwPolls' = [dwPolls EXCEPT ![w] = dwPolls[w] + 1]
            /\ UNCHANGED dwMode
       ELSE /\ dwPc' = [dwPc EXCEPT ![w] = "idle"]
            /\ dwMode' = [dwMode EXCEPT ![w] = "none"]
            /\ UNCHANGED dwPolls
    /\ UNCHANGED <<dwStoreVars, dwBatch, dwCur, dwLimit, dwProcessed,
                   dwRunning, dwIter, dwMax, dwPicked, dwLeft>>

\* process_pending(limit) called on its own
DocumentWorker_process_pending(w, limit) ==
    /\ dwPc[w] = "idle"
    /\ dwPc' = [dwPc EXCEPT ![w] = "fetch"]
    /\ dwMode' = [dwMode EXCEPT ![w] = "pending"]
    /\ dwLimit' = [dwLimit EXCEPT ![w] = limit]
    /\ UNCHANGED <<dwStoreVars, dwBatch, dwCur, dwProcessed, dwRunning, dwIter,
                   dwMax, dwPolls, dwPicked, dwLeft>>

\* process_by_session(crawl_session_id)
DocumentWorker_process_by_session(w) ==
    /\ dwPc[w] = "idle"
    /\ dwPc' = [dwPc EXCEPT ![w] = "fetch"]
    /\ dwMode' = [dwMode EXCEPT ![w] = "session"]
    /\ UNCHANGED <<dwStoreVars, dwBatch, dwCur, dwLimit, dwProcessed, dwRunning,
                   dwIter, dwMax, dwPolls, dwPicked, dwLeft>>

\* the documents are read from the store
DocumentWorker_fetch(w) ==
    /\ dwPc[w] = "fetch"
    /\ dwBatch' = [dwBatch EXCEPT ![w] =
                    IF dwMode[w] = "session" THEN PendingOf(GetBySession)
                    ELSE GetPendingDocuments(dwLimit[w])]
    /\ dwProcessed' = [dwProcessed EXCEPT ![w] = 0]
    /\ dwPc' = [dwPc EXCEPT ![w] = "next_doc"]
    /\ UNCHANGED <<dwStoreVars, dwMode, dwCur, dwLimit, dwRunning, dwIter,
                   dwMax, dwPolls, dwPicked, dwLeft>>

\* the store raises instead (the database cannot be reached): run()
\* logs the error and sleeps, the other calls pass the exception on
DocumentWorker_fetch_raises(w) ==
    /\ dwPc[w] = "fetch"
    /\ IF dwMode[w] = "run"
       THEN /\ dwPc' = [dwPc EXCEPT ![w] = "sleep_error"]
            /\ UNCHANGED dwMode
       ELSE /\ dwPc' = [dwPc EXCEPT ![w] = "idle"]
            /\ dwMode' = [dwMode EXCEPT ![w] = "none"]
    /\ UNCHANGED <<dwStoreVars, dwBatch, dwCur, dwLimit, dwProcessed,
                   dwRunning, dwIter, dwMax, dwPolls, dwPicked, dwLeft>>

\* the for loop over the fetched documents: _process_document is entered
\* for the next one and marks it processing; after the last one the call
\* returns, and run() sleeps when nothing was processed
DocumentWorker_next_doc(w) ==
    /\ dwPc[w] = "next_doc"
    /\ IF dwBatch[w] # <<>>
       THEN LET doc == Head(dwBatch[w])
            IN  /\ dwBatch' = [dwBatch EXCEPT ![w] = Tail(dwBatch[w])]
                /\ dwCur' = [dwCur EXCEPT ![w] = doc]
                /\ dwStatus' = MarkProcessing(dwStatus, doc)
                /\ dwPicked' = [dwPicked EXCEPT ![doc] = dwPicked[doc] \cup {w}]
                /\ dwPc' = [dwPc EXCEPT ![w] = "marked"]
                /\ UNCHANGED <<dwMode, dwIter>>
       ELSE /\ IF dwMode[w] # "run"
               THEN /\ dwPc' = [dwPc EXCEPT ![w] = "idle"]
                    /\ dwMode' = [dwMode EXCEPT ![w] = "none"]
                    /\ UNCHANGED dwIter
               ELSE IF dwProcessed[w] = 0
               THEN /\ dwPc' = [dwPc EXCEPT ![w] = "sleep"]
                    /\ UNCHANGED <<dwMode, dwIter>>
               ELSE /\ dwPc' = [dwPc EXCEPT ![w] = "run_loop"]
                    /\ dwIter' = [dwIter EXCEPT ![w] = dwIter[w] + 1]
                    /\ UNCHANGED dwMode
            /\ UNCHANGED <<dwBatch, dwCur, dwStatus, dwPicked>>
    /\ UNCHANGED <<dwFile, dwLimit, dwProcessed, dwRunning, dwMax, dwPolls,
                   dwLeft>>

\* what the caller of _process_document does with an exception it
\* raised: process_pending marks the document failed, process_by_session
\* counts it
OnProcessError(mode, status, doc) ==
    IF mode = "session" THEN status ELSE MarkFailedDoc(status, doc)

\* _process_document looks for the file: FileNotFoundError when it is
\* not there
DocumentWorker_check_file(w) ==
    /\ dwPc[w] = "marked"
    /\ IF dwFile[dwCur[w]]
       THEN /\ dwPc' = [dwPc EXCEPT ![w] = "docling"]
            /\ UNCHANGED <<dwStatus, dwCur, dwLeft>>
       ELSE /\ dwStatus' = OnProcessError(dwMode[w], dwStatus, dwCur[w])
            /\ dwLeft' = dwLeft \cup {dwCur[w]}
            /\ dwCur' = [dwCur EXCEPT ![w] = 0]
            /\ dwPc' = [dwPc EXCEPT ![w] = "next_doc"]
    /\ UNCHANGED <<dwFile, dwMode, dwBatch, dwLimit, dwProcessed, dwRunning,
                   dwIter, dwMax, dwPolls, dwPicked>>

DoclingOutcomes == {"result", "no result", "raises"}

\* the Docling processor returns a result (mark_vectorized), returns
\* nothing or raises (mark_failed, and the exception goes on to the
\* caller)
DocumentWorker_docling(w, outcome) ==
    /\ dwPc[w] = "docling"
    /\ LET doc == dwCur[w]
       IN  IF outcome = "result"
           THEN /\ dwStatus' = MarkVectorized(dwStatus, doc)
                /\ dwProcessed' = [dwProcessed EXCEPT ![w] = dwProcessed[w] + 1]
           ELSE /\ dwStatus' =
                    OnProcessError(dwMode[w], MarkFailedDoc(dwStatus, doc), doc)
                /\ UNCHANGED dwProcessed
    /\ dwLeft' = dwLeft \cup {dwCur[w]}
    /\ dwCur' = [dwCur EXCEPT ![w] = 0]
    /\ dwPc' = [dwPc EXCEPT ![w] = "next_doc"]
    /\ UNCHANGED <<dwFile, dwMode, dwBatch, dwLimit, dwRunning, dwIter, dwMax,
                   dwPolls, dwPicked>>

\* asyncio.sleep(poll_interval) in run() is over: after a poll that
\* processed nothing the iteration is counted, after an error it is not
DocumentWorker_wake(w) ==
    /\ dwPc[w] \in {"sleep", "sleep_error"}
    /\ dwIter' = [dwIter EXCEPT ![w] =
                    IF dwPc[w] = "sleep" THEN dwIter[w] + 1 ELSE dwIter[w]]
    /\ dwPc' = [dwPc EXCEPT ![w] = "run_loop"]
    /\ UNCHANGED <<dwStoreVars, dwMode, dwBatch, dwCur, dwLimit, dwProcessed,
                   dwRunning, dwMax, dwPolls, dwPicked, dwLeft>>

\* workers that were constructed and called nothing yet
NoCalls ==
    /\ dwPc = [w \in DocWorkers |-> "idle"]
    /\ dwMode = [w \in DocWorkers |-> "none"]
    /\ dwBatch = [w \in DocWorkers |-> <<>>]
    /\ dwCur = [w \in DocWorkers |-> 0]
    /\ dwLimit = [w \in DocWorkers |-> NumDocs]
    /\ dwProcessed = [w \in DocWorkers |-> 0]
    /\ dwRunning = [w \in DocWorkers |-> FALSE]
    /\ dwIter = [w \in DocWorkers |-> 0]
    /\ dwMax = [w \in DocWorkers |-> NoLimit]
    /\ dwPolls = [w \in DocWorkers |-> 0]
    /\ dwPicked = [d \in Docs |-> {}]
    /\ dwLeft = {}

\* a store of pending documents, crawled PDFs of which some are no
\* longer on disk
InitDW ==
    /\ dwStatus = [d \in Docs |-> "pending"]
    /\ dwFile \in [Docs -> BOOLEAN]
    /\ NoCalls

\* a store of pending documents whose files are all there
InitDWShared ==
    /\ dwStatus = [d \in Docs |-> "pending"]
    /\ dwFile = [d \in Docs |-> TRUE]
    /\ NoCalls

IdleDW ==
    /\ dwStatus = [d \in Docs |-> "pending"]
    /\ dwFile = [d \in Docs |-> TRUE]
    /\ NoCalls

\* ---------------------------------------------- ContentFilter.should_skip_url

\* URLs are paths of segments; a pattern is a segment, and pattern.search
\* finds it when the URL has that segment
Segments == {"docs", "admin", "login"}
SeqsUpTo(S, n) == UNION {[1..k -> S] : k \in 0..n}
Urls4Filter == SeqsUpTo(Segments, MaxUrlSegments) \ {<<>>}
PatternLists == SeqsUpTo(Segments, MaxPatterns)
Search(pattern, url) == \E i \in DOMAIN url : url[i] = pattern

\* LOGIN_PATTERNS, as far as they are segments of the URLs used here
LoginPatterns == <<"login">>

NoReason == <<"None">>

\* the first pattern of a list found in the URL (0: none)
FirstMatch(patterns, url) ==
    IF \E i \in DOMAIN patterns : Search(patterns[i], url)
    THEN CHOOSE i \in DOMAIN patterns :
            /\ Search(patterns[i], url)
            /\ \A j \in 1..(i - 1) : ~Search(patterns[j], url)
    ELSE 0

\* should_skip_url with the include rule looked at before the exclude rule
ShouldSkipUrl_IncludeFirst(url) ==
    IF include_patterns # <<>> /\ FirstMatch(include_patterns, url) = 0
    THEN [skip |-> TRUE,
          reason |-> <<"URL does not match any include pattern">>]
    ELSE IF FirstMatch(exclude_patterns, url) # 0
    THEN [skip |-> TRUE,
          reason |-> <<"Excluded by pattern",
                       exclude_patterns[FirstMatch(exclude_patterns, url)]>>]
    ELSE IF skip_login_pages /\ FirstMatch(LoginPatterns, url) # 0
    THEN [skip |-> TRUE, reason |-> <<"Login/auth page">>]
    ELSE [skip |-> FALSE, reason |-> NoReason]

\* should_skip_url: (should_skip, reason)
ShouldSkipUrl(url) ==
    IF FirstMatch(exclude_patterns, url) # 0
    THEN [skip |-> TRUE,
          reason |-> <<"Excluded by pattern",
                       exclude_patterns[FirstMatch(exclude_patterns, url)]>>]
    ELSE IF include_patterns # <<>> /\ FirstMatch(include_patterns, url) = 0
    THEN [skip |-> TRUE,
          reason |-> <<"URL does not match any include pattern">>]
    ELSE IF skip_login_pages /\ FirstMatch(LoginPatterns, url) # 0
    THEN [skip |-> TRUE, reason |-> <<"Login/auth page">>]
    ELSE [skip |-> FALSE, reason |-> NoReason]

ContentFilter_should_skip_url(url) ==
    /\ urlLast' = [called |-> TRUE, url |-> url, result |-> ShouldSkipUrl(url)]
    /\ UNCHANGED <<skip_login_pages, include_patterns, exclude_patterns>>

NoUrlCall == [called |-> FALSE, url |-> <<>>,
              result |-> [skip |-> FALSE, reason |-> NoReason]]

\* ContentFilter(skip_login_pages, include_patterns, exclude_patterns)
InitUrlFilter ==
    /\ skip_login_pages \in BOOLEAN
    /\ include_patterns \in PatternLists
    /\ exclude_patterns \in PatternLists
    /\ urlLast = NoUrlCall

\* ContentFilter()
IdleUrlFilter ==
    /\ skip_login_pages = TRUE
    /\ include_patterns = <<>>
    /\ exclude_patterns = <<>>
    /\ urlLast = NoUrlCall

Excluded(url) == \E i \in DOMAIN exclude_patterns : Search(exclude_patterns[i], url)
Included(url) == \E i \in DOMAIN include_patterns : Search(include_patterns[i], url)
LoginPage(url) == \E i \in DOMAIN LoginPatterns : Search(LoginPatterns[i], url)

\* C32: should_skip_url decides by the first rule that applies: a URL
\* matching an exclude pattern is skipped with the exclusion reason (also
\* when it matches an include or login pattern); otherwise a URL matching
\* none of the configured include patterns is skipped; otherwise a login
\* page is skipped when login skipping is on; otherwise the URL is
\* admitted without a reason.
C32_RulesInOrder ==
    urlLast.called =>
        LET url == urlLast.url
            result == urlLast.result
        IN  IF Excluded(url)
            THEN /\ result.skip
                 /\ result.reason[1] = "Excluded by pattern"
                 /\ Search(result.reason[2], url)
            ELSE IF include_patterns # <<>> /\ ~Included(url)
            THEN /\ result.skip
                 /\ result.reason = <<"URL does not match any include pattern">>
            ELSE IF skip_login_pages /\ LoginPage(url)
            THEN result.skip /\ result.reason = <<"Login/auth page">>
            ELSE ~result.skip /\ result.reason = NoReason

\* a URL excluded although no include pattern matches it and it is a
\* login page
C32_Witness ==
    /\ urlLast.called
    /\ Excluded(urlLast.url)
    /\ include_patterns # <<>>
    /\ ~Included(urlLast.url)
    /\ skip_login_pages /\ LoginPage(urlLast.url)
    /\ urlLast.result.reason[1] = "Excluded by pattern"

\* ------------------------------------------------ the frontier of a crawl run

\* a URL of the site: its path, whether it ends in a slash and whether it
\* has a fragment
Paths == 1..NumPaths
RawUrls == [path : Paths, slash : BOOLEAN, fragment : BOOLEAN]

\* _normalize_url: the fragment and the trailing slash are removed
NormalizeUrl(url) == [path |-> url.path, slash |-> FALSE, fragment |-> FALSE]
NormalizedUrls == {NormalizeUrl(u) : u \in RawUrls}

\* _is_pdf
IsPdf(url) == url.path \in frPdfPaths

\* the URLs of a set, one after the other
RECURSIVE UrlsInTurn(_)
UrlsInTurn(S) ==
    IF S = {} THEN <<>>
    ELSE LET u == CHOOSE x \in S : TRUE
         IN  <<u>> \o UrlsInTurn(S \ {u})

SetsUpTo(S, n) == {T \in SUBSET S : Cardinality(T) <= n}

\* process(), up to the loop: the start URL and the URLs of the sitemap
\* are put on the queue as they are
Frontier_begin(start_url, discovered_urls) ==
    /\ frPc = "start"
    /\ frQueue' = <<start_url>> \o UrlsInTurn(discovered_urls)
    /\ frVisited' = {}
    /\ frPdfUrls' = {}
    /\ frPc' = "loop"
    /\ UNCHANGED <<frPages, frMaxPages, frDocMaxPages, frPdfPaths, frFetched>>

\* while not queue.empty() and len(visited) < max_pages, with max_pages
\* read from the config of the stage
FrontierGoesOn == frQueue # <<>> /\ Cardinality(frVisited) < frMaxPages

\* the URL taken from the queue is in visited, as it was queued
Frontier_visited ==
    /\ frPc = "loop"
    /\ FrontierGoesOn
    /\ Head(frQueue) \in frVisited
    /\ frQueue' = Tail(frQueue)
    /\ UNCHANGED <<frPc, frVisited, frPdfUrls, frPages, frMaxPages,
                   frDocMaxPages, frPdfPaths, frFetched>>

\* the URL is normalized and then ruled out by the content filter or by
\* robots.txt
Frontier_skip ==
    /\ frPc = "loop"
    /\ FrontierGoesOn
    /\ Head(frQueue) \notin frVisited
    /\ frQueue' = Tail(frQueue)
    /\ UNCHANGED <<frPc, frVisited, frPdfUrls, frPages, frMaxPages,
                   frDocMaxPages, frPdfPaths, frFetched>>

\* the normalized URL joins visited; a PDF is set aside
Frontier_pdf ==
    /\ frPc = "loop"
    /\ FrontierGoesOn
    /\ Head(frQueue) \notin frVisited
    /\ IsPdf(NormalizeUrl(Head(frQueue)))
    /\ frQueue' = Tail(frQueue)
    /\ frVisited' = frVisited \cup {NormalizeUrl(Head(frQueue))}
    /\ frPdfUrls' = frPdfUrls \cup {NormalizeUrl(Head(frQueue))}
    /\ UNCHANGED <<frPc, frPages, frMaxPages, frDocMaxPages, frPdfPaths,
                   frFetched>>

\* the normalized URL joins visited and is fetched: the page is added
\* and its links, normalized by _extract_links_from_html, are queued
\* unless visited
Frontier_fetch(links) ==
    /\ frPc = "loop"
    /\ FrontierGoesOn
    /\ Head(frQueue) \notin frVisited
    /\ ~IsPdf(NormalizeUrl(Head(frQueue)))
    /\ LET url == NormalizeUrl(Head(frQueue))
           visited == frVisited \cup {url}
       IN  /\ frVisited' = visited
           /\ frFetched' = [frFetched EXCEPT ![url] = frFetched[url] + 1]
           /\ frPages' = Append(frPages, url)
           /\ frQueue' = Tail(frQueue) \o UrlsInTurn(links \ visited)
    /\ UNCHANGED <<frPc, frPdfUrls, frMaxPages, frDocMaxPages, frPdfPaths>>

\* the normalized URL joins visited and its fetch raises
Frontier_fetch_fails ==
    /\ frPc = "loop"
    /\ FrontierGoesOn
    /\ Head(frQueue) \notin frVisited
    /\ ~IsPdf(NormalizeUrl(Head(frQueue)))
    /\ LET url == NormalizeUrl(Head(frQueue))
       IN  /\ frVisited' = frVisited \cup {url}
           /\ frFetched' = [frFetched EXCEPT ![url] = frFetched[url] + 1]
    /\ frQueue' = Tail(frQueue)
    /\ UNCHANGED <<frPc, frPdfUrls, frPages, frMaxPages, frDocMaxPages,
                   frPdfPaths>>

\* after the loop the PDFs set aside are downloaded, each adding a page
\* unless its download raises, and process() returns
Frontier_end(downloaded) ==
    /\ frPc = "loop"
    /\ ~FrontierGoesOn
    /\ downloaded \subseteq frPdfUrls
    /\ frPages' = frPages \o UrlsInTurn(downloaded)
    /\ frPc' = "done"
    /\ UNCHANGED <<frQueue, frVisited, frPdfUrls, frMaxPages, frDocMaxPages,
                   frPdfPaths, frFetched>>

NoFrontier ==
    /\ frQueue = <<>>
    /\ frVisited = {}
    /\ frPdfUrls = {}
    /\ frPages = <<>>
    /\ frFetched = [u \in NormalizedUrls |-> 0]

\* a Document made by WebScrapingPipeline.run, with max_pages of the
\* config, or by CrawlerWorker.process_task, with max_pages of the task
InitFrontier ==
    /\ frPc = "start"
    /\ frMaxPages \in 1..MaxPageLimit
    /\ frDocMaxPages \in 1..MaxPageLimit
    /\ frPdfPaths \in SUBSET (Paths \ {1})
    /\ NoFrontier

IdleFrontier ==
    /\ frPc = "idle"
    /\ frMaxPages = 1
    /\ frDocMaxPages = 1
    /\ frPdfPaths = {}
    /\ NoFrontier

\* --------------------------------------------------------- frontier claims

PagesOf(url) == Cardinality({i \in DOMAIN frPages : frPages[i] = url})

\* C36: within one crawl run each normalized URL is passed to the page
\* fetch at most once and contributes at most one page to the document,
\* whatever the start URL, the sitemap URLs and the links are.
C36_EachUrlFetchedOnce ==
    \A url \in NormalizedUrls : frFetched[url] <= 1 /\ PagesOf(url) <= 1

\* C37: after process returns the document holds at most max_pages
\* pages, max_pages being the limit the Document carries.
C37_WithinDocumentMaxPages ==
    frPc = "done" => Len(frPages) <= frDocMaxPages

\* ------------------------------------------- the chunks of a crawled document

\* path.rstrip('/')
RECURSIVE RStripSlash(_)
RStripSlash(str) ==
    IF str # <<>> /\ str[Len(str)] = "/"
    THEN RStripSlash(SubSeq(str, 1, Len(str) - 1))
    ELSE str

\* _normalize_url, on the host and the path of a URL
NormalizedPageUrl(url) ==
    [netloc |-> url.netloc, path |-> RStripSlash(url.path)]

\* the URLs the crawler gives to the pages it adds
CrawledUrls == {NormalizedPageUrl(u) : u \in PageUrls}

CrawledPage(url, text) ==
    [url |-> url, text |-> text, source |-> "DOM",
     parent_chunks |-> <<>>, child_chunks |-> <<>>]

\* ChunkerStage.process: every page with text is chunked
ChunkerStage_process_document ==
    /\ ~cdChunked
    /\ cdPages' =
        [i \in DOMAIN cdPages |->
            IF cdPages[i].text = <<>> THEN cdPages[i]
            ELSE LET out == ChunkPage(cdPages[i], cdConfig)
                 IN  [cdPages[i] EXCEPT !.parent_chunks = out.parents,
                                        !.child_chunks = out.children]]
    /\ cdChunked' = TRUE
    /\ UNCHANGED cdConfig

\* a document of two pages crawled from two URLs, with extracted text
InitChunkDoc ==
    /\ cdConfig \in ChunkConfigs
    /\ \E u1 \in CrawledUrls, u2 \in CrawledUrls,
          t1 \in SentenceLists(MaxDocSentences),
          t2 \in SentenceLists(MaxDocSentences) :
            /\ u1 # u2
            /\ cdPages = <<CrawledPage(u1, t1), CrawledPage(u2, t2)>>
    /\ cdChunked = FALSE

IdleChunkDoc ==
    /\ cdConfig = DefaultChunkConfig
    /\ cdPages = <<>>
    /\ cdChunked = FALSE

IdsOfPage(page) ==
    {page.parent_chunks[i].id : i \in DOMAIN page.parent_chunks}
        \cup {page.child_chunks[i].id : i \in DOMAIN page.child_chunks}

PairwiseDistinct(ids) ==
    \A i \in DOMAIN ids, j \in DOMAIN ids : i # j => ids[i] # ids[j]

\* C38: chunk ids are unique within a run: chunks of two pages of the
\* document with different URLs never have the same id, and within one
\* page the parent ids are pairwise distinct and so are the child ids.
C38_ChunkIdsUnique ==
    cdChunked =>
        /\ \A i \in DOMAIN cdPages, j \in DOMAIN cdPages :
            cdPages[i].url # cdPages[j].url =>
                IdsOfPage(cdPages[i]) \cap IdsOfPage(cdPages[j]) = {}
        /\ \A i \in DOMAIN cdPages :
            /\ PairwiseDistinct(Ids(cdPages[i].parent_chunks))
            /\ PairwiseDistinct(Ids(cdPages[i].child_chunks))

\* ------------------------------------------------------ ApplicationLifecycle

\* how startup_database and executor_manager.acquire go in one startup()
StartupOutcomes == {"ok", "database_raises", "executor_raises"}

\* shutdown(), on the flags and the resources
AfterShutdown(st) ==
    IF st.shutdown_called THEN st
    ELSE [st EXCEPT !.shutdown_called = TRUE,
                    !.executor = FALSE,
                    !.database = FALSE]

Lifecycle ==
    [initialized |-> lcInitialized, shutdown_called |-> lcShutdownCalled,
     database |-> lcDbConnected, executor |-> lcExecutorHeld]

LifecycleBecomes(st) ==
    /\ lcInitialized' = st.initialized
    /\ lcShutdownCalled' = st.shutdown_called
    /\ lcDbConnected' = st.database
    /\ lcExecutorHeld' = st.executor

\* startup(): nothing if initialized; else the database, then the
\* executor, then the flag; on an exception shutdown() and raise
ApplicationLifecycle_startup(outcome) ==
    /\ Len(lcLog) < MaxLifecycleCalls
    /\ IF lcInitialized
       THEN /\ UNCHANGED <<lcInitialized, lcShutdownCalled, lcDbConnected,
                           lcExecutorHeld>>
            /\ lcLog' = Append(lcLog, "startup_again")
       ELSE /\ LifecycleBecomes(
                CASE outcome = "ok" ->
                        [Lifecycle EXCEPT !.database = TRUE,
                                          !.executor = TRUE,
                                          !.initialized = TRUE]
                  [] outcome = "database_raises" ->
                        AfterShutdown(Lifecycle)
                  [] outcome = "executor_raises" ->
                        AfterShutdown([Lifecycle EXCEPT !.database = TRUE]))
            /\ lcLog' = Append(lcLog, IF outcome = "ok" THEN "startup_ok"
                                      ELSE "startup_failed")

\* shutdown()
ApplicationLifecycle_shutdown ==
    /\ Len(lcLog) < MaxLifecycleCalls
    /\ LifecycleBecomes(AfterShutdown(Lifecycle))
    /\ lcLog' = Append(lcLog, "shutdown")

InitLifecycle ==
    /\ lcInitialized = FALSE
    /\ lcShutdownCalled = FALSE
    /\ lcDbConnected = FALSE
    /\ lcExecutorHeld = FALSE
    /\ lcLog = <<>>

IdleLifecycle == InitLifecycle

\* a shutdown() call has returned and a startup() before it succeeded
ShutDownAfterStartup ==
    /\ lcLog # <<>>
    /\ lcLog[Len(lcLog)] = "shutdown"
    /\ \E i \in DOMAIN lcLog : lcLog[i] = "startup_ok"

ResourcesHeld == lcDbConnected /\ lcExecutorHeld

\* C39: for any sequence of startup() and shutdown() calls, a failed and
\* retried startup included, a shutdown() made after a successful
\* startup() leaves the executor shut down and the database connections
\* closed, and is_initialized() is true only while both are held.
C39_ResourcesCleanedUp ==
    /\ ShutDownAfterStartup => ~lcDbConnected /\ ~lcExecutorHeld
    /\ lcInitialized => ResourcesHeld

IdleSV == IdleDW /\ IdleUrlFilter /\ IdleFrontier /\ IdleChunkDoc /\ IdleLifecycle /\ IdleChunkDoc /\ IdleLifecycle

\* ----------------------------------------------------- DocumentWorker claims

\* the worker is through with a document: a call of _process_document
\* for it has ended and none is under way
ThroughWith(d) == d \in dwLeft /\ \A w \in DocWorkers : dwCur[w] # d

StatusMoves ==
    {<<"pending", "processing">>, <<"processing", "vectorized">>,
     <<"processing", "failed">>}

\* C31: a document's status only moves pending -> processing ->
\* vectorized or failed, and a document the worker is through with, by
\* process_pending or by process_by_session, is vectorized or failed,
\* never left in processing.
C31_ProcessingEndsVectorizedOrFailed ==
    /\ [][\A d \in Docs :
            dwStatus'[d] # dwStatus[d]
                => <<dwStatus[d], dwStatus'[d]>> \in StatusMoves]_vars
    /\ [](\A d \in Docs :
            ThroughWith(d) => dwStatus[d] \in {"vectorized", "failed"})

\* C33: run(max_iterations = n) begins at most n polls, also when
\* process_pending raises on every poll, and after stop() it begins no
\* further poll.
C33_RunReturnsWithinIterations ==
    /\ [](\A w \in DocWorkers :
            dwMode[w] = "run" /\ dwMax[w] # NoLimit => dwPolls[w] <= dwMax[w])
    /\ [][\A w \in DocWorkers :
            dwMode[w] = "run" /\ ~dwRunning[w] /\ ~dwRunning'[w]
                => dwPolls'[w] = dwPolls[w]]_vars

\* C40: no document is marked processing by two workers.
C40_PickedByOneWorker ==
    \A d \in Docs : Cardinality(dwPicked[d]) <= 1

\* ------------------------------------------------------------ specifications

\* One RateLimiter used by concurrent callers.
InitSpecRL == InitRL /\ IdleCF /\ IdleOcr /\ IdleWK /\ IdleCR /\ IdleCH /\ IdlePL /\ IdleOR /\ IdleSV

RL_Tick == Tick /\ UNCHANGED <<cfVars, ocrVars, wkVars, crVars, chVars, plVars, orVars, svVars>>
RL_wait_begin ==
    /\ \E c \in Callers : RateLimiter_wait_begin(c)
    /\ UNCHANGED <<cfVars, ocrVars, wkVars, crVars, chVars, plVars, orVars, svVars>>
RL_wait_end ==
    /\ \E c \in Callers : RateLimiter_wait_end(c)
    /\ UNCHANGED <<cfVars, ocrVars, wkVars, crVars, chVars, plVars, orVars, svVars>>
RL_success ==
    RateLimiter_success /\ UNCHANGED <<cfVars, ocrVars, wkVars, crVars, chVars, plVars, orVars, svVars>>
RL_failure ==
    RateLimiter_failure /\ UNCHANGED <<cfVars, ocrVars, wkVars, crVars, chVars, plVars, orVars, svVars>>
RL_reset ==
    RateLimiter_reset /\ UNCHANGED <<cfVars, ocrVars, wkVars, crVars, chVars, plVars, orVars, svVars>>

NextRL ==
    \/ RL_Tick
    \/ RL_wait_begin
    \/ RL_wait_end
    \/ RL_success
    \/ RL_failure
    \/ RL_reset

SpecRL == InitSpecRL /\ [][NextRL]_vars

\* The limiter of a crawl that respects robots.txt
RL_robots_delay ==
    /\ \E d \in RobotsDelays : CrawlerStage_robots_delay(d)
    /\ UNCHANGED <<cfVars, ocrVars, wkVars, crVars, chVars, plVars, orVars, svVars>>

NextRLRobots ==
    \/ RL_Tick
    \/ RL_wait_begin
    \/ RL_wait_end
    \/ RL_success
    \/ RL_failure
    \/ RL_reset
    \/ RL_robots_delay

SpecRLRobots == InitSpecRL /\ [][NextRLRobots]_vars

\* The limiter used only through wait(): its delay stays base_delay.
NextRLWait ==
    \/ RL_Tick
    \/ RL_wait_begin
    \/ RL_wait_end

SpecRLWait == InitSpecRL /\ [][NextRLWait]_vars

\* One ContentFilter and its callers.
InitSpecCF == InitCF /\ IdleRL /\ IdleOcr /\ IdleWK /\ IdleCR /\ IdleCH /\ IdlePL /\ IdleOR /\ IdleSV

CF_is_duplicate_content ==
    /\ \E h \in Hashes : ContentFilter_is_duplicate_content(h)
    /\ UNCHANGED <<rlVars, ocrVars, wkVars, crVars, chVars, plVars, orVars, svVars>>
CF_reset ==
    ContentFilter_reset /\ UNCHANGED <<rlVars, ocrVars, wkVars, crVars, chVars, plVars, orVars, svVars>>

NextCF ==
    \/ CF_is_duplicate_content
    \/ CF_reset

SpecCF == InitSpecCF /\ [][NextCF]_vars

\* The OCR decision applied to one well-formed page of any content.
InitSpecOcrDecide == InitOcrDecide /\ IdleRL /\ IdleCF /\ IdleWK /\ IdleCR /\ IdleCH /\ IdlePL /\ IdleOR /\ IdleSV

OCR_process ==
    OCRDecisionStage_process /\ UNCHANGED <<rlVars, cfVars, wkVars, crVars, chVars, plVars, orVars, svVars>>

NextOcr == OCR_process

SpecOcrDecide == InitSpecOcrDecide /\ [][NextOcr]_vars

\* The OCR decision stage applied to a document.
InitSpecOcrStage == InitOcrStage /\ IdleRL /\ IdleCF /\ IdleWK /\ IdleCR /\ IdleCH /\ IdlePL /\ IdleOR /\ IdleSV

SpecOcrStage == InitSpecOcrStage /\ [][NextOcr]_vars

\* Crawler workers sharing the crawl queue.
InitSpecWK == InitWK /\ IdleRL /\ IdleCF /\ IdleOcr /\ IdleCR /\ IdleCH /\ IdlePL /\ IdleOR /\ IdleSV

WK_submit ==
    /\ \E t \in TaskIds : SubmitTask(t)
    /\ UNCHANGED <<rlVars, cfVars, ocrVars, crVars, chVars, plVars, orVars, svVars>>
WK_take ==
    /\ \E w \in Workers : CrawlerWorker_take(w)
    /\ UNCHANGED <<rlVars, cfVars, ocrVars, crVars, chVars, plVars, orVars, svVars>>
WK_complete ==
    /\ \E w \in Workers : CrawlerWorker_complete(w)
    /\ UNCHANGED <<rlVars, cfVars, ocrVars, crVars, chVars, plVars, orVars, svVars>>
WK_fail ==
    /\ \E w \in Workers, e \in CrawlErrors : CrawlerWorker_fail(w, e)
    /\ UNCHANGED <<rlVars, cfVars, ocrVars, crVars, chVars, plVars, orVars, svVars>>

NextWK ==
    \/ WK_submit
    \/ WK_take
    \/ WK_complete
    \/ WK_fail

SpecWK == InitSpecWK /\ [][NextWK]_vars

\* One CrawlerStage instance serving successive crawl runs.
InitSpecCrawl == InitCR /\ IdleRL /\ IdleCF /\ IdleOcr /\ IdleWK /\ IdleCH /\ IdlePL /\ IdleOR /\ IdleSV

NextCrawl ==
    \/ CrawlerWorker_startup
    \/ CrawlerWorker_process_task
    \/ Pipeline_run_crawler
    \/ \E d \in 0..MaxBase, n \in 0..MaxLinks :
            CrawlerStage_process_begin(d, n)
    \/ CrawlerStage_loop_visited
    \/ CrawlerStage_loop_skip
    \/ CrawlerStage_loop_pdf
    \/ CrawlerStage_loop_wait
    \/ CrawlerStage_loop_wake
    \/ \E h \in Hashes, at_max_depth \in BOOLEAN :
            CrawlerStage_page_fetched(h, at_max_depth)
    \/ \E n \in 0..MaxLinks : CrawlerStage_links_extracted(n)
    \/ CrawlerStage_links_failed
    \/ CrawlerStage_page_failed
    \/ CrawlerStage_process_end
    \/ \E downloaded \in BOOLEAN : CrawlerStage_download_pdf(downloaded)
    \/ CrawlClock

SpecCrawl == InitSpecCrawl /\ [][NextCrawl]_vars

\* ChunkerStage on one page
InitSpecChunk == InitCH /\ IdleRL /\ IdleCF /\ IdleOcr /\ IdleWK /\ IdleCR /\ IdlePL /\ IdleOR /\ IdleSV

CH_process ==
    ChunkerStage_process
    /\ UNCHANGED <<rlVars, cfVars, ocrVars, wkVars, crVars, plVars, orVars, svVars>>

NextChunk == CH_process

SpecChunk == InitSpecChunk /\ [][NextChunk]_vars

\* one run of the default pipeline
InitSpecPipeline == InitPL /\ IdleRL /\ IdleCF /\ IdleOcr /\ IdleWK /\ IdleCR /\ IdleCH /\ IdleOR /\ IdleSV

PL_create_default ==
    WebScrapingPipeline_create_default
    /\ UNCHANGED <<rlVars, cfVars, ocrVars, wkVars, crVars, chVars, orVars, svVars>>
PL_run_begin ==
    WebScrapingPipeline_run_begin
    /\ UNCHANGED <<rlVars, cfVars, ocrVars, wkVars, crVars, chVars, orVars, svVars>>
PL_setup ==
    PipelineStage_setup
    /\ UNCHANGED <<rlVars, cfVars, ocrVars, wkVars, crVars, chVars, orVars, svVars>>
PL_process ==
    PipelineStage_process
    /\ UNCHANGED <<rlVars, cfVars, ocrVars, wkVars, crVars, chVars, orVars, svVars>>
PL_teardown ==
    PipelineStage_teardown
    /\ UNCHANGED <<rlVars, cfVars, ocrVars, wkVars, crVars, chVars, orVars, svVars>>
PL_after_stage ==
    WebScrapingPipeline_after_stage
    /\ UNCHANGED <<rlVars, cfVars, ocrVars, wkVars, crVars, chVars, orVars, svVars>>
PL_save_results ==
    WebScrapingPipeline_save_results
    /\ UNCHANGED <<rlVars, cfVars, ocrVars, wkVars, crVars, chVars, orVars, svVars>>

NextPipeline ==
    \/ PL_create_default
    \/ PL_run_begin
    \/ PL_setup
    \/ PL_process
    \/ PL_teardown
    \/ PL_after_stage
    \/ PL_save_results

SpecPipeline == InitSpecPipeline /\ [][NextPipeline]_vars


\* OrchestratorConfig objects constructed and an orchestrator started
InitSpecConfig == InitOR /\ IdleRL /\ IdleCF /\ IdleOcr /\ IdleWK /\ IdleCR /\ IdleCH /\ IdlePL /\ IdleSV

OC_init ==
    OrchestratorConfig_init
    /\ UNCHANGED <<rlVars, cfVars, ocrVars, wkVars, crVars, chVars, plVars, svVars>>
OC_factory ==
    OrchestratorConfig_factory
    /\ UNCHANGED <<rlVars, cfVars, ocrVars, wkVars, crVars, chVars, plVars, svVars>>
OC_start ==
    Orchestrator_start
    /\ UNCHANGED <<rlVars, cfVars, ocrVars, wkVars, crVars, chVars, plVars, svVars>>

NextConfig ==
    \/ OC_init
    \/ OC_factory
    \/ OC_start

SpecConfig == InitSpecConfig /\ [][NextConfig]_vars

\* the bounded crawl queue with more incoming tasks than its capacity and
\* workers whose crawls succeed; the event loop lets every coroutine that
\* can go on do so
InitSpecQueue == InitIncoming /\ IdleRL /\ IdleCF /\ IdleOcr /\ IdleCR /\ IdleCH /\ IdlePL /\ IdleOR /\ IdleSV

Q_submit ==
    /\ \E t \in IncomingIds : SubmitTask(t)
    /\ UNCHANGED <<rlVars, cfVars, ocrVars, crVars, chVars, plVars, orVars, svVars>>

NextQueue ==
    \/ Q_submit
    \/ WK_take
    \/ WK_complete

SpecQueue ==
    /\ InitSpecQueue
    /\ [][NextQueue]_vars
    /\ WF_vars(Q_submit)
    /\ WF_vars(WK_take)
    /\ WF_vars(WK_complete)

\* crawler workers under the recovery watchdog
InitSpecWatchdog == InitWatched /\ InitOR /\ IdleRL /\ IdleCF /\ IdleOcr /\ IdleCR /\ IdleCH /\ IdlePL /\ IdleSV

WD_take ==
    /\ \E w \in Workers : Watched_take(w)
    /\ UNCHANGED <<rlVars, cfVars, ocrVars, crVars, chVars, plVars, svVars>>
WD_complete ==
    /\ \E w \in Workers : Watched_complete(w)
    /\ UNCHANGED <<rlVars, cfVars, ocrVars, crVars, chVars, plVars, svVars>>
WD_tick ==
    /\ Watchdog_tick
    /\ UNCHANGED <<rlVars, cfVars, ocrVars, wkVars, crVars, chVars, plVars, svVars>>
WD_check ==
    /\ RecoveryWatchdog_check
    /\ UNCHANGED <<rlVars, cfVars, ocrVars, crVars, chVars, plVars, svVars>>

WD_submit ==
    /\ \E t \in WatchedIds : SubmitTask(t)
    /\ UNCHANGED <<rlVars, cfVars, ocrVars, crVars, chVars, plVars, orVars, svVars>>

NextWatchdog ==
    \/ WD_submit
    \/ WD_take
    \/ WD_complete
    \/ WD_tick
    \/ WD_check

SpecWatchdog == InitSpecWatchdog /\ [][NextWatchdog]_vars

\* crawler workers from start to shutdown
InitSpecShutdown == InitWatched /\ InitOR /\ IdleRL /\ IdleCF /\ IdleOcr /\ IdleCR /\ IdleCH /\ IdlePL /\ IdleSV

otherThanWorkers == <<rlVars, cfVars, ocrVars, crVars, chVars, plVars, svVars>>

SD_submit ==
    /\ \E t \in WatchedIds : Shutdown_submit(t)
    /\ UNCHANGED otherThanWorkers
SD_take ==
    /\ \E w \in Workers : Worker_take(w)
    /\ UNCHANGED otherThanWorkers
SD_pop_timeout ==
    /\ \E w \in Workers : Worker_pop_timeout(w)
    /\ UNCHANGED otherThanWorkers
SD_complete ==
    /\ \E w \in Workers : Worker_complete(w)
    /\ UNCHANGED otherThanWorkers
SD_fail ==
    /\ \E w \in Workers, e \in CrawlErrors : Worker_fail(w, e)
    /\ UNCHANGED otherThanWorkers
SD_shutdown ==
    /\ Orchestrator_shutdown
    /\ UNCHANGED otherThanWorkers
SD_tick ==
    /\ Shutdown_tick
    /\ UNCHANGED otherThanWorkers
SD_abandon ==
    /\ Orchestrator_abandon
    /\ UNCHANGED otherThanWorkers

NextShutdown ==
    \/ SD_submit
    \/ SD_take
    \/ SD_pop_timeout
    \/ SD_complete
    \/ SD_fail
    \/ SD_shutdown
    \/ SD_tick
    \/ SD_abandon

\* timeouts fall due and time goes on; a crawl may last for ever
SpecShutdown ==
    InitSpecShutdown /\ [][NextShutdown]_vars
        /\ WF_vars(SD_pop_timeout) /\ WF_vars(SD_tick) /\ WF_vars(SD_abandon)

\* one DocumentWorker used through run, process_pending and
\* process_by_session
InitSpecDocWorker == InitDW /\ IdleUrlFilter /\ IdleFrontier /\ IdleChunkDoc /\ IdleLifecycle /\ IdleRL /\ IdleCF /\ IdleOcr /\ IdleWK /\ IdleCR /\ IdleCH /\ IdlePL /\ IdleOR

otherThanServices == <<rlVars, cfVars, ocrVars, wkVars, crVars, chVars, plVars, orVars>>

DW_run ==
    /\ \E n \in {NoLimit} \cup (1..MaxIterations), b \in 1..NumDocs :
        DocumentWorker_run(1, b, n)
    /\ UNCHANGED <<otherThanServices, urlVars, frVars, cdVars, lcVars>>
DW_stop == DocumentWorker_stop(1) /\ UNCHANGED <<otherThanServices, urlVars, frVars, cdVars, lcVars>>
DW_run_loop == DocumentWorker_run_loop(1) /\ UNCHANGED <<otherThanServices, urlVars, frVars, cdVars, lcVars>>
DW_process_pending ==
    /\ \E limit \in 1..NumDocs : DocumentWorker_process_pending(1, limit)
    /\ UNCHANGED <<otherThanServices, urlVars, frVars, cdVars, lcVars>>
DW_process_by_session ==
    DocumentWorker_process_by_session(1) /\ UNCHANGED <<otherThanServices, urlVars, frVars, cdVars, lcVars>>
DW_fetch == DocumentWorker_fetch(1) /\ UNCHANGED <<otherThanServices, urlVars, frVars, cdVars, lcVars>>
DW_fetch_raises == DocumentWorker_fetch_raises(1) /\ UNCHANGED <<otherThanServices, urlVars, frVars, cdVars, lcVars>>
DW_next_doc == DocumentWorker_next_doc(1) /\ UNCHANGED <<otherThanServices, urlVars, frVars, cdVars, lcVars>>
DW_check_file == DocumentWorker_check_file(1) /\ UNCHANGED <<otherThanServices, urlVars, frVars, cdVars, lcVars>>
DW_docling ==
    /\ \E o \in DoclingOutcomes : DocumentWorker_docling(1, o)
    /\ UNCHANGED <<otherThanServices, urlVars, frVars, cdVars, lcVars>>
DW_wake == DocumentWorker_wake(1) /\ UNCHANGED <<otherThanServices, urlVars, frVars, cdVars, lcVars>>

NextDocWorker ==
    \/ DW_run
    \/ DW_stop
    \/ DW_run_loop
    \/ DW_process_pending
    \/ DW_process_by_session
    \/ DW_fetch
    \/ DW_fetch_raises
    \/ DW_next_doc
    \/ DW_check_file
    \/ DW_docling
    \/ DW_wake

SpecDocWorker == InitSpecDocWorker /\ [][NextDocWorker]_vars

\* DocumentWorker instances polling the same store with process_pending
InitSpecDocWorkers == InitDWShared /\ IdleUrlFilter /\ IdleFrontier /\ IdleChunkDoc /\ IdleLifecycle /\ IdleRL /\ IdleCF /\ IdleOcr /\ IdleWK /\ IdleCR /\ IdleCH /\ IdlePL /\ IdleOR

DWS_process_pending ==
    /\ \E w \in DocWorkers, limit \in 1..NumDocs :
        DocumentWorker_process_pending(w, limit)
    /\ UNCHANGED <<otherThanServices, urlVars, frVars, cdVars, lcVars>>
DWS_fetch ==
    /\ \E w \in DocWorkers : DocumentWorker_fetch(w)
    /\ UNCHANGED <<otherThanServices, urlVars, frVars, cdVars, lcVars>>
DWS_next_doc ==
    /\ \E w \in DocWorkers : DocumentWorker_next_doc(w)
    /\ UNCHANGED <<otherThanServices, urlVars, frVars, cdVars, lcVars>>
DWS_check_file ==
    /\ \E w \in DocWorkers : DocumentWorker_check_file(w)
    /\ UNCHANGED <<otherThanServices, urlVars, frVars, cdVars, lcVars>>
DWS_docling ==
    /\ \E w \in DocWorkers, o \in DoclingOutcomes : DocumentWorker_docling(w, o)
    /\ UNCHANGED <<otherThanServices, urlVars, frVars, cdVars, lcVars>>

NextDocWorkers ==
    \/ DWS_process_pending
    \/ DWS_fetch
    \/ DWS_next_doc
    \/ DWS_check_file
    \/ DWS_docling

SpecDocWorkers == InitSpecDocWorkers /\ [][NextDocWorkers]_vars

\* a ContentFilter asked about URLs
InitSpecUrlFilter == InitUrlFilter /\ IdleDW /\ IdleFrontier /\ IdleChunkDoc /\ IdleLifecycle /\ IdleRL /\ IdleCF /\ IdleOcr /\ IdleWK /\ IdleCR /\ IdleCH /\ IdlePL /\ IdleOR

UF_should_skip_url ==
    /\ \E url \in Urls4Filter : ContentFilter_should_skip_url(url)
    /\ UNCHANGED <<otherThanServices, dwVars, frVars, cdVars, lcVars>>

NextUrlFilter == UF_should_skip_url

SpecUrlFilter == InitSpecUrlFilter /\ [][NextUrlFilter]_vars

\* one crawl run followed URL by URL
InitSpecFrontier == InitFrontier /\ IdleDW /\ IdleUrlFilter /\ IdleChunkDoc /\ IdleLifecycle /\ IdleRL /\ IdleCF /\ IdleOcr /\ IdleWK /\ IdleCR /\ IdleCH /\ IdlePL /\ IdleOR

notFrontier == <<otherThanServices, dwVars, urlVars, cdVars, lcVars>>

FR_begin ==
    /\ \E start_url \in {u \in RawUrls : u.path = 1},
          discovered_urls \in SetsUpTo(RawUrls, MaxLinks) :
            Frontier_begin(start_url, discovered_urls)
    /\ UNCHANGED notFrontier
FR_visited == Frontier_visited /\ UNCHANGED notFrontier
FR_skip == Frontier_skip /\ UNCHANGED notFrontier
FR_pdf == Frontier_pdf /\ UNCHANGED notFrontier
FR_fetch ==
    /\ \E links \in SetsUpTo(NormalizedUrls, MaxLinks) : Frontier_fetch(links)
    /\ UNCHANGED notFrontier
FR_fetch_fails == Frontier_fetch_fails /\ UNCHANGED notFrontier
FR_end ==
    /\ \E downloaded \in SUBSET frPdfUrls : Frontier_end(downloaded)
    /\ UNCHANGED notFrontier

NextFrontier ==
    \/ FR_begin
    \/ FR_visited
    \/ FR_skip
    \/ FR_pdf
    \/ FR_fetch
    \/ FR_fetch_fails
    \/ FR_end

SpecFrontier == InitSpecFrontier /\ [][NextFrontier]_vars

\* the chunker on a crawled document of two pages
InitSpecChunkDoc == InitChunkDoc /\ IdleDW /\ IdleUrlFilter /\ IdleFrontier /\ IdleLifecycle /\ IdleRL /\ IdleCF /\ IdleOcr /\ IdleWK /\ IdleCR /\ IdleCH /\ IdlePL /\ IdleOR

CD_process ==
    ChunkerStage_process_document
    /\ UNCHANGED <<otherThanServices, dwVars, urlVars, frVars, lcVars>>

NextChunkDoc == CD_process

SpecChunkDoc == InitSpecChunkDoc /\ [][NextChunkDoc]_vars

\* startup() and shutdown() called in any order
InitSpecLifecycle == InitLifecycle /\ IdleDW /\ IdleUrlFilter /\ IdleFrontier /\ IdleChunkDoc /\ IdleRL /\ IdleCF /\ IdleOcr /\ IdleWK /\ IdleCR /\ IdleCH /\ IdlePL /\ IdleOR

LC_startup ==
    /\ \E outcome \in StartupOutcomes : ApplicationLifecycle_startup(outcome)
    /\ UNCHANGED <<otherThanServices, dwVars, urlVars, frVars, cdVars>>
LC_shutdown ==
    /\ ApplicationLifecycle_shutdown
    /\ UNCHANGED <<otherThanServices, dwVars, urlVars, frVars, cdVars>>

NextLifecycle ==
    \/ LC_startup
    \/ LC_shutdown

SpecLifecycle == InitSpecLifecycle /\ [][NextLifecycle]_vars

====
